---- MODULE Spec2Model ----
(***************************************************************************)
(* CarryGreen dashboard: the CSV ingestion pipeline                        *)
(*   lib/csv/validation.ts   field validators                              *)
(*   lib/csv/parser.ts       createTimestamp, parseRow, parseCSV           *)
(*                           (src/unnamed/part_003)                        *)
(*   lib/csv/transformations.ts  aggregateData                             *)
(* and the streaming service with its provider                             *)
(*   services/websocket-service.ts  WebSocketService                       *)
(*   app/layout.tsx                 RealtimeDataProvider                   *)
(*                                                                         *)
(* A JavaScript string is a sequence of one-character strings, so that the *)
(* regular expressions and Number() of the source are computed character   *)
(* by character.  A JavaScript number is a decimal record (see Num).       *)
(***************************************************************************)
EXTENDS Integers, Sequences, FiniteSets, TLC

VARIABLES engine, call, ret, service, context

vars == <<engine, call, ret, service, context>>

(***************************************************************************)
(* Bounds of the explored inputs.                                          *)
(***************************************************************************)
\* longest string taken exhaustively from a validator's alphabet
MaxLen == 3
\* most data rows of one tokenized file
MaxRows == 2

(***************************************************************************)
(* Strings                                                                 *)
(***************************************************************************)
Empty == <<>>

\* the JavaScript value undefined (an absent cell, an absent datetime)
Undefined == <<"undefined">>

DigitChars == <<"0", "1", "2", "3", "4", "5", "6", "7", "8", "9">>

IsDigit(c) == \E i \in 1..10 : DigitChars[i] = c

DigitVal(c) == (CHOOSE i \in 1..10 : DigitChars[i] = c) - 1

UpperChars ==
    <<"A", "B", "C", "D", "E", "F", "G", "H", "I", "J", "K", "L", "M",
      "N", "O", "P", "Q", "R", "S", "T", "U", "V", "W", "X", "Y", "Z">>

LowerChars ==
    <<"a", "b", "c", "d", "e", "f", "g", "h", "i", "j", "k", "l", "m",
      "n", "o", "p", "q", "r", "s", "t", "u", "v", "w", "x", "y", "z">>

\* String.prototype.toLowerCase, on ASCII text
LowerChar(c) ==
    IF \E i \in 1..Len(UpperChars) : UpperChars[i] = c
    THEN LowerChars[CHOOSE i \in 1..Len(UpperChars) : UpperChars[i] = c]
    ELSE c

toLowerCase(s) == [i \in 1..Len(s) |-> LowerChar(s[i])]

IsHexDigit(c) == IsDigit(c) \/ LowerChar(c) \in {"a", "b", "c", "d", "e", "f"}

HexVal(c) ==
    IF IsDigit(c) THEN DigitVal(c)
    ELSE 9 + (CHOOSE i \in 1..6 : LowerChars[i] = LowerChar(c))

\* the character at position i, or "" past the end of the string
At(s, i) == IF i >= 1 /\ i <= Len(s) THEN s[i] ELSE ""

\* s.substring(i-1, j): characters i..j
Sub(s, i, j) == IF j < i THEN Empty ELSE SubSeq(s, i, j)

\* StrWhiteSpaceChar of the explored alphabets
IsWhiteSpace(c) == c \in {" ", "\t", "\n", "\r"}

RECURSIVE SpanDigits(_, _)
\* the number of consecutive decimal digits of s from position i on
SpanDigits(s, i) == IF IsDigit(At(s, i)) THEN 1 + SpanDigits(s, i + 1) ELSE 0

RECURSIVE SpanWhite(_, _)
SpanWhite(s, i) == IF IsWhiteSpace(At(s, i)) THEN 1 + SpanWhite(s, i + 1) ELSE 0

RECURSIVE SpanWhiteBack(_, _)
SpanWhiteBack(s, i) == IF IsWhiteSpace(At(s, i)) THEN 1 + SpanWhiteBack(s, i - 1) ELSE 0

\* String.prototype.trim, as StringToNumber applies it
Trim(s) ==
    IF SpanWhite(s, 1) = Len(s) THEN Empty
    ELSE Sub(s, SpanWhite(s, 1) + 1, Len(s) - SpanWhiteBack(s, Len(s)))

RECURSIVE DigitsToNat(_, _)
\* the value of the digit string s in the given radix
DigitsToNat(s, radix) ==
    IF s = Empty THEN 0
    ELSE DigitsToNat(Sub(s, 1, Len(s) - 1), radix) * radix + HexVal(s[Len(s)])

RECURSIVE NatToDigits(_)
NatToDigits(n) ==
    IF n < 10 THEN <<DigitChars[n + 1]>>
    ELSE Append(NatToDigits(n \div 10), DigitChars[(n % 10) + 1])

\* String(n) for an integer n
IntToStr(n) == IF n < 0 THEN <<"-">> \o NatToDigits(-n) ELSE NatToDigits(n)

(***************************************************************************)
(* Numbers.  A JavaScript number is NaN, an infinity, or sign * m * 10^e   *)
(* with m kept free of trailing zeros (zero is m = 0, e = 0, and -0 is     *)
(* identified with 0, as === does).  The explored literals have at most    *)
(* nine significant digits, for which the decimal value orders against     *)
(* the integer range bounds exactly as the IEEE double does.               *)
(***************************************************************************)
NaN == [k |-> "nan", neg |-> FALSE, m |-> 0, e |-> 0]

Zero == [k |-> "fin", neg |-> FALSE, m |-> 0, e |-> 0]

Infinity(neg) == [k |-> "inf", neg |-> neg, m |-> 0, e |-> 0]

RECURSIVE StripZeros(_, _)
StripZeros(m, e) ==
    IF m = 0 THEN <<0, 0>>
    ELSE IF m % 10 = 0 THEN StripZeros(m \div 10, e + 1)
    ELSE <<m, e>>

RECURSIVE SatMul10(_, _)
\* x * 10^k, saturating at 10^9
SatMul10(x, k) ==
    IF k = 0 \/ x = 0 THEN x
    ELSE IF x >= 100000000 THEN 1000000000
    ELSE SatMul10(x * 10, k - 1)

\* sign * m * 10^e for m of d digits without trailing zeros, as a double:
\* overflow gives an infinity, underflow 0
Rounded(neg, m, e, d) ==
    IF m = 0 THEN Zero
    ELSE IF e + d - 1 > 308 \/ (e + d - 1 = 308 /\ SatMul10(m, 9 - d) >= 179769314)
    THEN Infinity(neg)
    ELSE IF e + d - 1 < -324 \/ (e + d - 1 = -324 /\ SatMul10(m, 9 - d) < 247032823)
    THEN Zero
    ELSE [k |-> "fin", neg |-> neg, m |-> m, e |-> e]

Normal(neg, c) == Rounded(neg, c[1], c[2], Len(NatToDigits(c[1])))

\* the double nearest to sign * m * 10^e
MakeNum(neg, m, e) == Normal(neg, StripZeros(m, e))

FromInt(n) == IF n < 0 THEN MakeNum(TRUE, -n, 0) ELSE MakeNum(FALSE, n, 0)

Sign(n) == IF n < 0 THEN -1 ELSE IF n > 0 THEN 1 ELSE 0

\* m * 10^e compared with the integer a >= 0 (m > 0): -1, 0 or 1
MagCmp(m, e, a) ==
    IF e >= 0 THEN Sign(SatMul10(m, e) - a)
    ELSE Sign(m - SatMul10(a, -e))

\* the number v compared with the integer b: -1, 0 or 1 (v is not NaN)
CmpInt(v, b) ==
    IF v.k = "inf" THEN (IF v.neg THEN -1 ELSE 1)
    ELSE IF v.m = 0 THEN Sign(0 - b)
    ELSE IF ~v.neg THEN (IF b < 0 THEN 1 ELSE MagCmp(v.m, v.e, b))
    ELSE (IF b >= 0 THEN -1 ELSE 0 - MagCmp(v.m, v.e, 0 - b))

\* isNaN(v)
isNaN(v) == v.k = "nan"

\* v < b and v > b of JavaScript: false when v is NaN
Lt(v, b) == ~isNaN(v) /\ CmpInt(v, b) < 0

Gt(v, b) == ~isNaN(v) /\ CmpInt(v, b) > 0

AllHex(s) == \A i \in 1..Len(s) : IsHexDigit(s[i])

IsOctDigit(c) == IsDigit(c) /\ DigitVal(c) < 8

IsBinDigit(c) == c \in {"0", "1"}

AllOct(s) == \A i \in 1..Len(s) : IsOctDigit(s[i])

AllBin(s) == \A i \in 1..Len(s) : IsBinDigit(s[i])

InfinityText == <<"I", "n", "f", "i", "n", "i", "t", "y">>

\* StrDecimalLiteral, read left to right: the exponent digits from i4 on
ExponentDigits(t, neg, mant, nFrac, i4, expNeg, nExp) ==
    IF nExp >= 1 /\ i4 + nExp = Len(t) + 1
    THEN MakeNum(neg, mant,
                 (IF expNeg THEN 0 - DigitsToNat(Sub(t, i4, Len(t)), 10)
                  ELSE DigitsToNat(Sub(t, i4, Len(t)), 10)) - nFrac)
    ELSE NaN

\* the optional ExponentPart from i3 on, after a mantissa with nFrac decimals
ExponentPart(t, neg, mant, nFrac, i3) ==
    IF At(t, i3) \in {"e", "E"}
    THEN IF At(t, i3 + 1) \in {"+", "-"}
         THEN ExponentDigits(t, neg, mant, nFrac, i3 + 2, At(t, i3 + 1) = "-",
                             SpanDigits(t, i3 + 2))
         ELSE ExponentDigits(t, neg, mant, nFrac, i3 + 1, FALSE, SpanDigits(t, i3 + 1))
    ELSE IF i3 = Len(t) + 1 THEN MakeNum(neg, mant, 0 - nFrac)
    ELSE NaN

\* the digits of the mantissa: nInt from i1 on and nFrac from iFrac on
Mantissa(t, neg, i1, nInt, iFrac, nFrac) ==
    IF nInt + nFrac = 0 THEN NaN
    ELSE ExponentPart(t, neg,
                      DigitsToNat(Sub(t, i1, i1 + nInt - 1)
                                  \o Sub(t, iFrac, iFrac + nFrac - 1), 10),
                      nFrac, iFrac + nFrac)

IntegerPart(t, neg, i1, nInt) ==
    IF At(t, i1 + nInt) = "."
    THEN Mantissa(t, neg, i1, nInt, i1 + nInt + 1, SpanDigits(t, i1 + nInt + 1))
    ELSE Mantissa(t, neg, i1, nInt, i1 + nInt, 0)

UnsignedLiteral(t, neg, i1) ==
    IF Sub(t, i1, Len(t)) = InfinityText THEN Infinity(neg)
    ELSE IntegerPart(t, neg, i1, SpanDigits(t, i1))

\* a StrDecimalLiteral: sign, "Infinity" or digits[.digits][e[sign]digits]
DecimalLiteral(t) ==
    IF At(t, 1) \in {"+", "-"} THEN UnsignedLiteral(t, At(t, 1) = "-", 2)
    ELSE UnsignedLiteral(t, FALSE, 1)

\* StringToNumber of the trimmed text t
TrimmedToNumber(t) ==
    IF t = Empty THEN Zero
    ELSE IF At(t, 1) = "0" /\ LowerChar(At(t, 2)) = "x" /\ Len(t) >= 3
            /\ AllHex(Sub(t, 3, Len(t)))
    THEN MakeNum(FALSE, DigitsToNat(Sub(t, 3, Len(t)), 16), 0)
    ELSE IF At(t, 1) = "0" /\ LowerChar(At(t, 2)) = "o" /\ Len(t) >= 3
            /\ AllOct(Sub(t, 3, Len(t)))
    THEN MakeNum(FALSE, DigitsToNat(Sub(t, 3, Len(t)), 8), 0)
    ELSE IF At(t, 1) = "0" /\ LowerChar(At(t, 2)) = "b" /\ Len(t) >= 3
            /\ AllBin(Sub(t, 3, Len(t)))
    THEN MakeNum(FALSE, DigitsToNat(Sub(t, 3, Len(t)), 2), 0)
    ELSE DecimalLiteral(t)

\* Number(s) of a string s: StringToNumber of ECMAScript
StringToNumber(s) == TrimmedToNumber(Trim(s))

Zeros(n) == [i \in 1..n |-> "0"]

\* x as an exponent: "e+x" or "e-x"
ExponentText(x) ==
    IF x < 0 THEN <<"e", "-">> \o NatToDigits(0 - x) ELSE <<"e", "+">> \o NatToDigits(x)

\* Number::toString of the digits s times 10^(n - Len(s))
DigitsToStr(s, n) ==
    IF Len(s) <= n /\ n <= 21 THEN s \o Zeros(n - Len(s))
    ELSE IF 0 < n /\ n <= 21 THEN Sub(s, 1, n) \o <<".">> \o Sub(s, n + 1, Len(s))
    ELSE IF -6 < n /\ n <= 0 THEN <<"0", ".">> \o Zeros(0 - n) \o s
    ELSE IF Len(s) = 1 THEN s \o ExponentText(n - 1)
    ELSE <<s[1], ".">> \o Sub(s, 2, Len(s)) \o ExponentText(n - 1)

\* String(v), the template-literal conversion of a number (Number::toString)
NumToStr(v) ==
    IF v.k = "nan" THEN <<"N", "a", "N">>
    ELSE IF v.k = "inf" THEN (IF v.neg THEN <<"-">> ELSE Empty) \o InfinityText
    ELSE IF v.m = 0 THEN <<"0">>
    ELSE (IF v.neg THEN <<"-">> ELSE Empty)
         \o DigitsToStr(NatToDigits(v.m), v.e + Len(NatToDigits(v.m)))

(***************************************************************************)
(* lib/csv/validation.ts                                                   *)
(***************************************************************************)
\* the absent error of a validation result
NoError == [type |-> "none"]

ParseError(row, field, value, text, args, type) ==
    [row |-> row, field |-> field, value |-> value,
     message |-> [text |-> text, args |-> args], type |-> type]

\* the rules with the frequency band of a 50 Hz grid only
ValidationRulesNarrowFrequency ==
    [voltage     |-> [min |-> 0,    max |-> 300],
     current     |-> [min |-> -100, max |-> 100],
     power       |-> [min |-> 0,    max |-> 10000],
     energy      |-> [min |-> 0,    max |-> 100000],
     temperature |-> [min |-> -40,  max |-> 80],
     soc         |-> [min |-> 0,    max |-> 100],
     frequency   |-> [min |-> 45,   max |-> 55]]

ValidationRules ==
    [voltage     |-> [min |-> 0,    max |-> 300],
     current     |-> [min |-> -100, max |-> 100],
     power       |-> [min |-> 0,    max |-> 10000],
     energy      |-> [min |-> 0,    max |-> 100000],
     temperature |-> [min |-> -40,  max |-> 80],
     soc         |-> [min |-> 0,    max |-> 100],
     frequency   |-> [min |-> 45,   max |-> 65]]

\* the range check of validateNumber with the upper bound taken exclusive
checkNumberExclusiveMax(numValue, value, fieldName, min, max, rowIndex) ==
    IF isNaN(numValue)
    THEN [value |-> Zero,
          error |-> ParseError(rowIndex, fieldName, value,
                               "Invalid number format: \"$1\"", <<value>>, "conversion")]
    ELSE IF Lt(numValue, min) \/ ~Lt(numValue, max)
    THEN [value |-> numValue,
          error |-> ParseError(rowIndex, fieldName, value,
                               "Value $1 is outside valid range [$2, $3]",
                               <<NumToStr(numValue), IntToStr(min), IntToStr(max)>>,
                               "validation")]
    ELSE [value |-> numValue, error |-> NoError]

\* the range check of validateNumber without its lower bound
checkNumberUnboundedBelow(numValue, value, fieldName, min, max, rowIndex) ==
    IF isNaN(numValue)
    THEN [value |-> Zero,
          error |-> ParseError(rowIndex, fieldName, value,
                               "Invalid number format: \"$1\"", <<value>>, "conversion")]
    ELSE IF Gt(numValue, max)
    THEN [value |-> numValue,
          error |-> ParseError(rowIndex, fieldName, value,
                               "Value $1 is outside valid range [$2, $3]",
                               <<NumToStr(numValue), IntToStr(min), IntToStr(max)>>,
                               "validation")]
    ELSE [value |-> numValue, error |-> NoError]

\* validateNumber from "const numValue = Number(value)" on
checkNumber(numValue, value, fieldName, min, max, rowIndex) ==
    IF isNaN(numValue)
    THEN [value |-> Zero,
          error |-> ParseError(rowIndex, fieldName, value,
                               "Invalid number format: \"$1\"", <<value>>, "conversion")]
    ELSE IF Lt(numValue, min) \/ Gt(numValue, max)
    THEN [value |-> numValue,
          error |-> ParseError(rowIndex, fieldName, value,
                               "Value $1 is outside valid range [$2, $3]",
                               <<NumToStr(numValue), IntToStr(min), IntToStr(max)>>,
                               "validation")]
    ELSE [value |-> numValue, error |-> NoError]

validateNumber(value, fieldName, min, max, rowIndex) ==
    IF value = Empty \/ value = <<"-">> \/ value = Undefined
    THEN [value |-> Zero, error |-> NoError]
    ELSE checkNumber(StringToNumber(value), value, fieldName, min, max, rowIndex)

validateVoltage(value, fieldName, rowIndex) ==
    validateNumber(value, fieldName, ValidationRules.voltage.min,
                   ValidationRules.voltage.max, rowIndex)

validateCurrent(value, fieldName, rowIndex) ==
    validateNumber(value, fieldName, ValidationRules.current.min,
                   ValidationRules.current.max, rowIndex)

validatePower(value, fieldName, rowIndex) ==
    validateNumber(value, fieldName, ValidationRules.power.min,
                   ValidationRules.power.max, rowIndex)

validateEnergy(value, fieldName, rowIndex) ==
    validateNumber(value, fieldName, ValidationRules.energy.min,
                   ValidationRules.energy.max, rowIndex)

validateTemperature(value, fieldName, rowIndex) ==
    validateNumber(value, fieldName, ValidationRules.temperature.min,
                   ValidationRules.temperature.max, rowIndex)

validateSOC(value, fieldName, rowIndex) ==
    validateNumber(value, fieldName, ValidationRules.soc.min,
                   ValidationRules.soc.max, rowIndex)

validateFrequency(value, fieldName, rowIndex) ==
    validateNumber(value, fieldName, ValidationRules.frequency.min,
                   ValidationRules.frequency.max, rowIndex)

\* /^\d{4}-\d{2}-\d{2}$/
dateRegex(s) ==
    /\ Len(s) = 10
    /\ \A i \in {1, 2, 3, 4, 6, 7, 9, 10} : IsDigit(s[i])
    /\ s[5] = "-"
    /\ s[8] = "-"

IsLeapYear(y) == (y % 4 = 0 /\ y % 100 # 0) \/ y % 400 = 0

DaysInMonth(y, mo) ==
    IF mo = 2 THEN (IF IsLeapYear(y) THEN 29 ELSE 28)
    ELSE IF mo \in {4, 6, 9, 11} THEN 30
    ELSE 31

\* The JavaScript engines the code runs on (engine is the one a call ran on).  ECMAScript leaves the parse of
\* a date-time string whose day exceeds the month's length (but not 31) to
\* the implementation: V8 (Chrome, Node) carries the excess days into the
\* next month and yields a valid time value, SpiderMonkey and JavaScriptCore
\* yield NaN.
Engines == {"carry", "strict"}

\* isNaN(new Date(s).getTime()) is false, for s of the shape YYYY-MM-DD
DateParses(s, eng) ==
    LET y  == DigitsToNat(Sub(s, 1, 4), 10)
        mo == DigitsToNat(Sub(s, 6, 7), 10)
        d  == DigitsToNat(Sub(s, 9, 10), 10)
    IN  /\ mo >= 1 /\ mo <= 12
        /\ d >= 1 /\ d <= 31
        /\ (eng = "strict" => d <= DaysInMonth(y, mo))

validateDate(value, fieldName, rowIndex, eng) ==
    IF value = Undefined \/ value = Empty
    THEN [value |-> Empty,
          error |-> ParseError(rowIndex, fieldName, value, "Date is required",
                               <<>>, "missing")]
    ELSE IF ~dateRegex(value)
    THEN [value |-> value,
          error |-> ParseError(rowIndex, fieldName, value,
                               "Date must be in YYYY-MM-DD format", <<>>, "format")]
    ELSE IF ~DateParses(value, eng)
    THEN [value |-> value,
          error |-> ParseError(rowIndex, fieldName, value, "Invalid date", <<>>,
                               "validation")]
    ELSE [value |-> value, error |-> NoError]

\* /^([01]?[0-9]|2[0-4]):[0-5][0-9]$/: the hour 24 let through
timeRegexHour24(s) ==
    LET hourOk(h) ==
            \/ Len(h) = 1 /\ IsDigit(h[1])
            \/ Len(h) = 2 /\ h[1] \in {"0", "1"} /\ IsDigit(h[2])
            \/ Len(h) = 2 /\ h[1] = "2" /\ h[2] \in {"0", "1", "2", "3", "4"}
    IN  \E n \in 1..2 :
            /\ Len(s) = n + 3
            /\ hourOk(Sub(s, 1, n))
            /\ s[n + 1] = ":"
            /\ s[n + 2] \in {"0", "1", "2", "3", "4", "5"}
            /\ IsDigit(s[n + 3])

\* /^([01]?[0-9]|2[0-3]):[0-5][0-9]$/
timeRegex(s) ==
    LET hourOk(h) ==
            \/ Len(h) = 1 /\ IsDigit(h[1])
            \/ Len(h) = 2 /\ h[1] \in {"0", "1"} /\ IsDigit(h[2])
            \/ Len(h) = 2 /\ h[1] = "2" /\ h[2] \in {"0", "1", "2", "3"}
    IN  \E n \in 1..2 :
            /\ Len(s) = n + 3
            /\ hourOk(Sub(s, 1, n))
            /\ s[n + 1] = ":"
            /\ s[n + 2] \in {"0", "1", "2", "3", "4", "5"}
            /\ IsDigit(s[n + 3])

\* validateTime returning "" beside its 'format' error
validateTimeBlankOnError(value, fieldName, rowIndex) ==
    IF value = Undefined \/ value = Empty
    THEN [value |-> Empty,
          error |-> ParseError(rowIndex, fieldName, value, "Time is required",
                               <<>>, "missing")]
    ELSE IF ~timeRegex(value)
    THEN [value |-> Empty,
          error |-> ParseError(rowIndex, fieldName, value,
                               "Time must be in HH:MM format", <<>>, "format")]
    ELSE [value |-> value, error |-> NoError]

validateTime(value, fieldName, rowIndex) ==
    IF value = Undefined \/ value = Empty
    THEN [value |-> Empty,
          error |-> ParseError(rowIndex, fieldName, value, "Time is required",
                               <<>>, "missing")]
    ELSE IF ~timeRegex(value)
    THEN [value |-> value,
          error |-> ParseError(rowIndex, fieldName, value,
                               "Time must be in HH:MM format", <<>>, "format")]
    ELSE [value |-> value, error |-> NoError]

\* validateBlackout comparing the raw value, without toLowerCase
validateBlackoutCaseSensitive(value, fieldName, rowIndex) ==
    IF value = Empty \/ value = <<"-">>
    THEN [value |-> "null", error |-> NoError]
    ELSE IF value = <<"t", "r", "u", "e">> \/ value = <<"1">> \/ value = <<"y", "e", "s">>
    THEN [value |-> "true", error |-> NoError]
    ELSE IF value = <<"f", "a", "l", "s", "e">> \/ value = <<"0">> \/ value = <<"n", "o">>
    THEN [value |-> "false", error |-> NoError]
    ELSE [value |-> "null",
          error |-> ParseError(rowIndex, fieldName, value,
                               "Invalid blackout status: \"$1\"", <<value>>,
                               "validation")]

validateBlackout(value, fieldName, rowIndex) ==
    LET lowerValue == toLowerCase(value)
    IN  IF value = Empty \/ value = <<"-">>
        THEN [value |-> "null", error |-> NoError]
        ELSE IF \/ lowerValue = <<"t", "r", "u", "e">>
                \/ lowerValue = <<"1">>
                \/ lowerValue = <<"y", "e", "s">>
        THEN [value |-> "true", error |-> NoError]
        ELSE IF \/ lowerValue = <<"f", "a", "l", "s", "e">>
                \/ lowerValue = <<"0">>
                \/ lowerValue = <<"n", "o">>
        THEN [value |-> "false", error |-> NoError]
        ELSE [value |-> "null",
              error |-> ParseError(rowIndex, fieldName, value,
                                   "Invalid blackout status: \"$1\"", <<value>>,
                                   "validation")]

\* /^0x[0-9A-Fa-f]*$/: the digits made optional
hexRegexNoDigits(s) ==
    /\ Len(s) >= 2
    /\ s[1] = "0"
    /\ s[2] = "x"
    /\ AllHex(Sub(s, 3, Len(s)))

\* /^0x[0-9A-Fa-f]+$/
hexRegex(s) ==
    /\ Len(s) >= 3
    /\ s[1] = "0"
    /\ s[2] = "x"
    /\ AllHex(Sub(s, 3, Len(s)))

validateHex(value, fieldName, rowIndex) ==
    IF value = Undefined \/ value = Empty
    THEN [value |-> <<"0", "x", "0", "0">>, error |-> NoError]
    ELSE IF ~hexRegex(value)
    THEN [value |-> value,
          error |-> ParseError(rowIndex, fieldName, value,
                               "Invalid hex format: \"$1\"", <<value>>, "format")]
    ELSE [value |-> value, error |-> NoError]

(***************************************************************************)
(* lib/csv/parser.ts                                                       *)
(*                                                                         *)
(* A row of the tokenizer is a function from column names to cells; the    *)
(* cell of a column the file does not have is Undefined.                   *)
(***************************************************************************)
RowKeys ==
    {"ID", "Date", "Time", "Name", "Blackout",
     "InvSupply_TotalKWh", "Total kWh",
     "PV_Voltage", "Voltage", "PV_Current", "Current", "PV_PowerW", "Power W",
     "PV_DailyWh", "Daily Wh", "PV_MonthlyWd", "Monthly Wd", "PV_YearlyWm", "Yearly Wm",
     "PV_TotalKWh",
     "Voltage_1", "Current_1", "Temp", "SOC",
     "Voltage_2", "Current_2", "Hz",
     "Voltage_3", "Current_3", "Hz_1",
     "Hex"}

\* a || b taking b whenever b is not empty
OrLegacyFirst(a, b) == IF b = Undefined \/ b = Empty THEN a ELSE b

\* a || b on cells: b when a is undefined or the empty string
Or(a, b) == IF a = Undefined \/ a = Empty THEN b ELSE a

\* the errors a validation result contributes: if (v.error) errors.push(v.error)
Pushed(v) == IF v.error = NoError THEN <<>> ELSE <<v.error>>

Pad2(n) == IF n < 10 THEN <<"0">> \o NatToDigits(n) ELSE NatToDigits(n)

\* new Date(`${date}T${time}:00`) is a valid time value.  date and time have
\* passed validateDate and validateTime on the same engine; the date-time form
\* of ECMAScript wants a two-digit hour, and no engine falls back to another
\* format once the "T" is read.
DateTimeParses(date, time, eng) == DateParses(date, eng) /\ Len(time) = 5

\* new Date(`${date}T${time}:00`).toISOString(): the instant, written with the
\* fields of the zone the text is read in (the shift to UTC that toISOString
\* applies is undone by every reader of the field).  Days past the end of the
\* month are carried into the next month.
ToISOString(date, time) ==
    LET y  == DigitsToNat(Sub(date, 1, 4), 10)
        mo == DigitsToNat(Sub(date, 6, 7), 10)
        d  == DigitsToNat(Sub(date, 9, 10), 10)
        over == d > DaysInMonth(y, mo)
        d2 == IF over THEN d - DaysInMonth(y, mo) ELSE d
        mo2 == IF ~over THEN mo ELSE IF mo = 12 THEN 1 ELSE mo + 1
        y2 == IF over /\ mo = 12 THEN y + 1 ELSE y
        year == IF y2 < 10 THEN <<"0", "0", "0">> \o NatToDigits(y2)
                ELSE IF y2 < 100 THEN <<"0", "0">> \o NatToDigits(y2)
                ELSE IF y2 < 1000 THEN <<"0">> \o NatToDigits(y2)
                ELSE NatToDigits(y2)
    IN  year \o <<"-">> \o Pad2(mo2) \o <<"-">> \o Pad2(d2) \o <<"T">> \o time
             \o <<":", "0", "0", ".", "0", "0", "0">>

\* createTimestamp pushing the error of the time before that of the date
combineTimestampTimeFirst(date, time, rowIndex, eng, dateValidation, timeValidation) ==
    IF dateValidation.error = NoError /\ timeValidation.error = NoError
    THEN IF DateTimeParses(dateValidation.value, timeValidation.value, eng)
         THEN [timestamp |-> [date |-> dateValidation.value,
                              time |-> timeValidation.value,
                              datetime |-> ToISOString(dateValidation.value,
                                                       timeValidation.value)],
               errors |-> <<>>]
         ELSE \* toISOString throws a RangeError, which is caught
              [timestamp |-> [date |-> dateValidation.value,
                              time |-> timeValidation.value,
                              datetime |-> Undefined],
               errors |-> <<ParseError(rowIndex, "datetime", date \o <<" ">> \o time,
                                       "Failed to create valid datetime", <<>>,
                                       "conversion")>>]
    ELSE [timestamp |-> [date |-> dateValidation.value,
                         time |-> timeValidation.value,
                         datetime |-> Undefined],
          errors |-> Pushed(timeValidation) \o Pushed(dateValidation)]

\* createTimestamp making the datetime of the date alone when the time fails
combineTimestampOfDateAlone(date, time, rowIndex, eng, dateValidation, timeValidation) ==
    IF dateValidation.error = NoError /\ timeValidation.error = NoError
    THEN IF DateTimeParses(dateValidation.value, timeValidation.value, eng)
         THEN [timestamp |-> [date |-> dateValidation.value,
                              time |-> timeValidation.value,
                              datetime |-> ToISOString(dateValidation.value,
                                                       timeValidation.value)],
               errors |-> <<>>]
         ELSE [timestamp |-> [date |-> dateValidation.value,
                              time |-> timeValidation.value,
                              datetime |-> Undefined],
               errors |-> <<ParseError(rowIndex, "datetime", date \o <<" ">> \o time,
                                       "Failed to create valid datetime", <<>>,
                                       "conversion")>>]
    ELSE [timestamp |-> [date |-> dateValidation.value,
                         time |-> timeValidation.value,
                         datetime |-> IF dateValidation.error = NoError
                                      THEN ToISOString(dateValidation.value,
                                                       <<"0", "0", ":", "0", "0">>)
                                      ELSE Undefined],
          errors |-> Pushed(dateValidation) \o Pushed(timeValidation)]

\* createTimestamp from "let datetime" on: the two validations are its constants
combineTimestamp(date, time, rowIndex, eng, dateValidation, timeValidation) ==
    IF dateValidation.error = NoError /\ timeValidation.error = NoError
    THEN IF DateTimeParses(dateValidation.value, timeValidation.value, eng)
         THEN [timestamp |-> [date |-> dateValidation.value,
                              time |-> timeValidation.value,
                              datetime |-> ToISOString(dateValidation.value,
                                                       timeValidation.value)],
               errors |-> <<>>]
         ELSE \* toISOString throws a RangeError, which is caught
              [timestamp |-> [date |-> dateValidation.value,
                              time |-> timeValidation.value,
                              datetime |-> Undefined],
               errors |-> <<ParseError(rowIndex, "datetime", date \o <<" ">> \o time,
                                       "Failed to create valid datetime", <<>>,
                                       "conversion")>>]
    ELSE [timestamp |-> [date |-> dateValidation.value,
                         time |-> timeValidation.value,
                         datetime |-> Undefined],
          errors |-> Pushed(dateValidation) \o Pushed(timeValidation)]

createTimestamp(date, time, rowIndex, eng) ==
    combineTimestamp(date, time, rowIndex, eng,
                     validateDate(date, "Date", rowIndex, eng),
                     validateTime(time, "Time", rowIndex))

\* the acceptance test with "or" in place of "and": a row lacking either is refused
missingEitherIdentity(id, date) == id = Empty \/ date = Empty

\* !userRecord.id && !timestampResult.timestamp.date
missingIdentity(id, date) == id = Empty /\ date = Empty

\* parseRow from the validations on: the record, the error list in the order
\* of the pushes, and the acceptance rule
assembleRow(rowIndex, row, timestampResult, blackoutValidation, invSupplyValidation, pvVoltageValidation, pvCurrentValidation, pvPowerValidation, pvDailyWhValidation, pvMonthlyWdValidation, pvYearlyWmValidation, pvTotalKWhValidation, batteryVoltageValidation, batteryCurrentValidation, batteryTempValidation, batterySOCValidation, inverterVoltageValidation, inverterCurrentValidation, inverterFreqValidation, gridVoltageValidation, gridCurrentValidation, gridFreqValidation, hexValidation) ==
    IF missingIdentity(Or(row["ID"], Empty), timestampResult.timestamp.date)
    THEN [record |-> <<>>,
          errors |->
            timestampResult.errors
            \o Pushed(blackoutValidation)
            \o Pushed(invSupplyValidation)
            \o Pushed(pvVoltageValidation) \o Pushed(pvCurrentValidation)
            \o Pushed(pvPowerValidation) \o Pushed(pvDailyWhValidation)
            \o Pushed(pvMonthlyWdValidation) \o Pushed(pvYearlyWmValidation)
            \o Pushed(pvTotalKWhValidation)
            \o Pushed(batteryVoltageValidation) \o Pushed(batteryCurrentValidation)
            \o Pushed(batteryTempValidation) \o Pushed(batterySOCValidation)
            \o Pushed(inverterVoltageValidation) \o Pushed(inverterCurrentValidation)
            \o Pushed(inverterFreqValidation)
            \o Pushed(gridVoltageValidation) \o Pushed(gridCurrentValidation)
            \o Pushed(gridFreqValidation)
            \o Pushed(hexValidation)
            \o <<ParseError(rowIndex, "record",
                            <<"i", "n", "c", "o", "m", "p", "l", "e", "t", "e">>,
                            "Row missing required ID or date information", <<>>,
                            "validation")>>]
    ELSE [record |->
            <<[userRecord |-> [id |-> Or(row["ID"], Empty),
                               name |-> Or(row["Name"], Empty),
                               timestamp |-> timestampResult.timestamp,
                               blackout |-> blackoutValidation.value],
               inverterSupply |-> [totalKWh |-> invSupplyValidation.value],
               pv |-> [voltage |-> pvVoltageValidation.value,
                       current |-> pvCurrentValidation.value,
                       powerW |-> pvPowerValidation.value,
                       dailyWh |-> pvDailyWhValidation.value,
                       monthlyWd |-> pvMonthlyWdValidation.value,
                       yearlyWm |-> pvYearlyWmValidation.value,
                       totalKWh |-> pvTotalKWhValidation.value],
               battery |-> [voltage |-> batteryVoltageValidation.value,
                            current |-> batteryCurrentValidation.value,
                            temperature |-> batteryTempValidation.value,
                            soc |-> batterySOCValidation.value],
               inverter |-> [voltage |-> inverterVoltageValidation.value,
                             current |-> inverterCurrentValidation.value,
                             frequency |-> inverterFreqValidation.value],
               grid |-> [voltage |-> gridVoltageValidation.value,
                         current |-> gridCurrentValidation.value,
                         frequency |-> gridFreqValidation.value],
               status |-> [hex |-> hexValidation.value]]>>,
          errors |->
            timestampResult.errors
            \o Pushed(blackoutValidation)
            \o Pushed(invSupplyValidation)
            \o Pushed(pvVoltageValidation) \o Pushed(pvCurrentValidation)
            \o Pushed(pvPowerValidation) \o Pushed(pvDailyWhValidation)
            \o Pushed(pvMonthlyWdValidation) \o Pushed(pvYearlyWmValidation)
            \o Pushed(pvTotalKWhValidation)
            \o Pushed(batteryVoltageValidation) \o Pushed(batteryCurrentValidation)
            \o Pushed(batteryTempValidation) \o Pushed(batterySOCValidation)
            \o Pushed(inverterVoltageValidation) \o Pushed(inverterCurrentValidation)
            \o Pushed(inverterFreqValidation)
            \o Pushed(gridVoltageValidation) \o Pushed(gridCurrentValidation)
            \o Pushed(gridFreqValidation)
            \o Pushed(hexValidation)]

\* parseRow: each cell is read and validated, in the order of the source
parseRow(row, rowIndex, eng) ==
    assembleRow(rowIndex, row,
        createTimestamp(Or(row["Date"], Empty), Or(row["Time"], Empty), rowIndex, eng),
        validateBlackout(Or(row["Blackout"], Empty), "Blackout", rowIndex),
        validateEnergy(Or(Or(row["InvSupply_TotalKWh"], row["Total kWh"]), Empty),
                       "InvSupply_TotalKWh", rowIndex),
        validateVoltage(Or(Or(row["PV_Voltage"], row["Voltage"]), Empty),
                        "PV_Voltage", rowIndex),
        validateCurrent(Or(Or(row["PV_Current"], row["Current"]), Empty),
                        "PV_Current", rowIndex),
        validatePower(Or(Or(row["PV_PowerW"], row["Power W"]), Empty),
                      "PV_PowerW", rowIndex),
        validateEnergy(Or(Or(row["PV_DailyWh"], row["Daily Wh"]), Empty),
                       "PV_DailyWh", rowIndex),
        validateEnergy(Or(Or(row["PV_MonthlyWd"], row["Monthly Wd"]), Empty),
                       "PV_MonthlyWd", rowIndex),
        validateEnergy(Or(Or(row["PV_YearlyWm"], row["Yearly Wm"]), Empty),
                       "PV_YearlyWm", rowIndex),
        validateEnergy(Or(Or(row["PV_TotalKWh"], row["Total kWh"]), Empty),
                       "PV_TotalKWh", rowIndex),
        validateVoltage(Or(row["Voltage_1"], Empty), "Battery_Voltage", rowIndex),
        validateCurrent(Or(row["Current_1"], Empty), "Battery_Current", rowIndex),
        validateTemperature(Or(row["Temp"], Empty), "Battery_Temp", rowIndex),
        validateSOC(Or(row["SOC"], Empty), "Battery_SOC", rowIndex),
        validateVoltage(Or(row["Voltage_2"], Empty), "Inverter_Voltage", rowIndex),
        validateCurrent(Or(row["Current_2"], Empty), "Inverter_Current", rowIndex),
        validateFrequency(Or(row["Hz"], Empty), "Inverter_Frequency", rowIndex),
        validateVoltage(Or(row["Voltage_3"], Empty), "Grid_Voltage", rowIndex),
        validateCurrent(Or(row["Current_3"], Empty), "Grid_Current", rowIndex),
        validateFrequency(Or(row["Hz_1"], Empty), "Grid_Frequency", rowIndex),
        validateHex(Or(row["Hex"], Empty), "Status_Hex", rowIndex))

RECURSIVE Flatten(_)
\* the concatenation of a sequence of sequences
Flatten(ss) == IF ss = <<>> THEN <<>> ELSE Head(ss) \o Flatten(Tail(ss))

\* the row number of a tokenizer error that names no row
NoRow == -1

\* the ParseError made of a tokenizer error
papaError(error) ==
    ParseError(IF error.row = NoRow \/ error.row = 0 THEN 0 ELSE error.row + 1,
               "parsing", Empty, error.message, <<>>, "format")

\* the complete callback with the errors of the tokenizer put first
resolveCompleteTokenizerFirst(results, parseResult) ==
    [data |-> Flatten([index \in 1..Len(results.data) |-> parseResult[index].record]),
     errors |-> [j \in 1..Len(results.errors) |-> papaError(results.errors[j])]
                \o Flatten([index \in 1..Len(results.data) |-> parseResult[index].errors]),
     totalRows |-> Len(results.data),
     successfulRows |->
        Len(Flatten([index \in 1..Len(results.data) |-> parseResult[index].record]))]

\* the index of the first refused row, or the number of rows when none is
FirstRefused(parseResult) ==
    IF \A i \in 1..Len(parseResult) : parseResult[i].record # <<>>
    THEN Len(parseResult)
    ELSE CHOOSE i \in 1..Len(parseResult) :
            /\ parseResult[i].record = <<>>
            /\ \A j \in 1..(i - 1) : parseResult[j].record # <<>>

\* the complete callback giving up at the first refused row
resolveCompleteStoppingAtRefusal(results, parseResult) ==
    [data |-> Flatten([index \in 1..FirstRefused(parseResult) |-> parseResult[index].record]),
     errors |-> Flatten([index \in 1..FirstRefused(parseResult) |-> parseResult[index].errors])
                \o [j \in 1..Len(results.errors) |-> papaError(results.errors[j])],
     totalRows |-> Len(results.data),
     successfulRows |->
        Len(Flatten([index \in 1..FirstRefused(parseResult) |-> parseResult[index].record]))]

\* the complete callback counting every row of the tokenizer as successful
resolveCompleteCountingRows(results, parseResult) ==
    [data |-> Flatten([index \in 1..Len(results.data) |-> parseResult[index].record]),
     errors |-> Flatten([index \in 1..Len(results.data) |-> parseResult[index].errors])
                \o [j \in 1..Len(results.errors) |-> papaError(results.errors[j])],
     totalRows |-> Len(results.data),
     successfulRows |-> Len(results.data)]

\* the result resolved by the complete callback, parseResult[index] being what
\* parseRow returned for the row of that index
resolveComplete(results, parseResult) ==
    [data |-> Flatten([index \in 1..Len(results.data) |-> parseResult[index].record]),
     errors |-> Flatten([index \in 1..Len(results.data) |-> parseResult[index].errors])
                \o [j \in 1..Len(results.errors) |-> papaError(results.errors[j])],
     totalRows |-> Len(results.data),
     successfulRows |->
        Len(Flatten([index \in 1..Len(results.data) |-> parseResult[index].record]))]

\* the complete callback numbering the rows from 1, the header line not counted
parseCSVCompleteHeaderUncounted(results, eng) ==
    resolveComplete(results,
                    [index \in 1..Len(results.data) |->
                        parseRow(results.data[index], (index - 1) + 1, eng)])

\* parseCSV, the complete callback: results is what the tokenizer hands over,
\* its data rows and its own errors
parseCSVComplete(results, eng) ==
    resolveComplete(results,
                    [index \in 1..Len(results.data) |->
                        parseRow(results.data[index], (index - 1) + 2, eng)])

\* the error callback resolving an empty result that reports nothing
parseCSVErrorUnreported(error) ==
    [data |-> <<>>, errors |-> <<>>, totalRows |-> 0, successfulRows |-> 0]

\* parseCSV, the error callback: the tokenizer gave up on the whole input
parseCSVError(error) ==
    [data |-> <<>>,
     errors |-> <<ParseError(0, "file", Empty, error.message, <<>>, "format")>>,
     totalRows |-> 0,
     successfulRows |-> 0]

(***************************************************************************)
(* Explored inputs                                                         *)
(***************************************************************************)
\* every string of at most n characters of the alphabet
Strings(alphabet, n) == UNION {[1..k -> alphabet] : k \in 0..n}

\* every spelling of the lower-case word w in upper and lower case
UpperOf(c) == UpperChars[CHOOSE j \in 1..26 : LowerChars[j] = c]

CaseVariants(w) ==
    {s \in [1..Len(w) -> {w[i] : i \in 1..Len(w)} \cup {UpperOf(w[i]) : i \in 1..Len(w)}] :
        \A i \in 1..Len(w) : s[i] \in {w[i], UpperOf(w[i])}}

\* the field name and row number a validator is called with
Contexts == {[field |-> "PV_Voltage", row |-> 2], [field |-> "Grid_Frequency", row |-> 7]}

NumberAlphabet == {"0", "1", "4", "8", "-", ".", "e", " ", "a"}

\* the ranges validateNumber is explored with over NumberAlphabet
NumberRanges == {[min |-> 0, max |-> 100], [min |-> -40, max |-> 80]}

\* the bounds of ValidationRules, and their neighbours, as decimal literals
BoundaryLiterals ==
    {IntToStr(b + d) : b \in {0, 300, -100, 100, 10000, 100000, -40, 80, 45, 65},
                       d \in {-1, 0, 1}}

NumberSamples ==
    BoundaryLiterals
    \cup {lit \o <<".", "5">> : lit \in BoundaryLiterals}
    \cup {Empty, Undefined, <<"-">>, <<"a", "b", "c">>, <<" ">>, <<" ", "6", "0", " ">>,
          <<"0", "x", "1", "F">>, <<"0", "b", "1", "1">>, <<"0", "o", "1", "7">>,
          <<"0", "x">>, <<"1", "e", "3">>, <<"5", "e", "-", "1">>, <<"+", "5", "0">>,
          <<"1", ",", "5">>, <<"6", "0", "H", "z">>, <<"1", "e", "9", "9", "9">>,
          <<"1", "e", "-", "9", "9", "9">>, <<"I", "n", "f", "i", "n", "i", "t", "y">>,
          <<"-", "I", "n", "f", "i", "n", "i", "t", "y">>, <<"N", "a", "N">>}

NumberInputs == Strings(NumberAlphabet, MaxLen) \cup NumberSamples

DateYears == {<<"2", "0", "2", "4">>, <<"2", "0", "2", "5">>, <<"1", "9", "0", "0">>,
              <<"2", "0", "0", "0">>}

DateDigits == {"0", "1", "2", "3", "9"}

DateInputs ==
    {y \o <<sep>> \o mo \o <<sep>> \o d :
        y \in DateYears, sep \in {"-", "/"}, mo \in [1..2 -> DateDigits],
        d \in [1..2 -> DateDigits]}
    \cup {Empty, Undefined, <<"0", "9", "/", "2", "8", "/", "2", "0", "2", "5">>,
          <<"2", "0", "2", "5", "-", "9", "-", "2", "8">>,
          <<"2", "0", "2", "5", "-", "0", "9", "-", "2", "8", " ">>,
          <<" ", "2", "0", "2", "5", "-", "0", "9", "-", "2", "8">>,
          <<"2", "0", "2", "5", "-", "0", "9", "-", "2", "8", "T", "1", "0", ":", "0", "0">>,
          <<"2", "0", "2", "5", "0", "9", "2", "8">>,
          <<"2", "5", "-", "0", "9", "-", "2", "8">>,
          <<"a", "b", "c", "d", "-", "e", "f", "-", "g", "h">>,
          <<"2", "0", "2", "5", "-", "0", "9", "-", "2", "x">>}

TimeAlphabet == {"0", "2", "3", "4", "5", "6", ":"}

TimeInputs ==
    Strings(TimeAlphabet, MaxLen + 2)
    \cup {Undefined, <<"9", ":", "0", "5">>, <<"2", "1", ":", "0", "5">>,
          <<"1", "9", ":", "5", "9">>, <<"1", ":", "0", "0">>,
          <<"2", "1", ":", "0", "5", ":", "0", "0">>, <<"2", "1", ".", "0", "5">>,
          <<"2", "1", ":", "0", "5", " ">>, <<" ", "9", ":", "0", "5">>,
          <<"9", ":", "0", "5", "P", "M">>, <<"a", "b", ":", "c", "d">>}

BlackoutAlphabet == {"y", "Y", "e", "s", "n", "N", "o", "0", "1", "-", "t"}

BlackoutInputs ==
    Strings(BlackoutAlphabet, MaxLen)
    \cup CaseVariants(<<"t", "r", "u", "e">>)
    \cup CaseVariants(<<"f", "a", "l", "s", "e">>)
    \cup {<<"t", "r", "u", "e", "e">>, <<" ", "t", "r", "u", "e">>, <<"y", "e", "s", " ">>,
          <<"f", "a", "l", "s">>, <<"2">>, <<"o", "f", "f">>, <<"-", "-">>}

HexAlphabet == {"0", "x", "X", "3", "F", "a", "g"}

HexInputs ==
    Strings(HexAlphabet, MaxLen + 1)
    \cup {Undefined, <<"0", "x", "0", "3", " ">>, <<" ", "0", "x", "0", "3">>,
          <<"0", "x", "D", "E", "A", "D", "b", "e", "e", "f">>, <<"#", "0", "3">>}

(***************************************************************************)
(* Explored rows and tokenizer results                                     *)
(***************************************************************************)
\* the first data row of the sample file of app/test-parser/page.tsx
GoodRow ==
    [k \in RowKeys |->
        CASE k = "ID" -> <<"H", "1">>
          [] k = "Date" -> <<"2", "0", "2", "5", "-", "0", "9", "-", "2", "8">>
          [] k = "Time" -> <<"2", "1", ":", "0", "5">>
          [] k = "Name" -> <<"T", "P">>
          [] k = "Blackout" -> <<"-">>
          [] k = "InvSupply_TotalKWh" -> <<"1", ".", "8", "5">>
          [] k = "PV_Voltage" -> <<"0">>
          [] k = "PV_Current" -> <<"0">>
          [] k = "PV_PowerW" -> <<"0">>
          [] k = "PV_DailyWh" -> <<"0">>
          [] k = "PV_MonthlyWd" -> <<"7", "7", "4", ".", "7", "7">>
          [] k = "PV_YearlyWm" -> <<"3", "8", "7", ".", "3", "8">>
          [] k = "PV_TotalKWh" -> <<"2", ".", "3", "2">>
          [] k = "Voltage_1" -> <<"2", "5", ".", "9">>
          [] k = "Current_1" -> <<"0">>
          [] k = "Temp" -> <<"2", "7">>
          [] k = "SOC" -> <<"9", "8">>
          [] k = "Voltage_2" -> <<"2", "0", "8", ".", "3", "5">>
          [] k = "Current_2" -> <<"0">>
          [] k = "Hz" -> <<"6", "0">>
          [] k = "Voltage_3" -> <<"2", "0", "6", ".", "6", "3">>
          [] k = "Current_3" -> <<"0">>
          [] k = "Hz_1" -> <<"6", "0">>
          [] k = "Hex" -> <<"0", "x", "0", "3">>
          [] OTHER -> Undefined]

\* a row whose every validated cell fails
BadRow ==
    [k \in RowKeys |->
        CASE k = "ID" -> <<"H", "1">>
          [] k = "Date" -> <<"0", "9", "/", "2", "8", "/", "2", "0", "2", "5">>
          [] k = "Time" -> <<"2", "5", ":", "0", "0">>
          [] k = "Name" -> <<"T", "P">>
          [] k = "Blackout" -> <<"m", "a", "y", "b", "e">>
          [] k = "InvSupply_TotalKWh" -> <<"a", "b", "c">>
          [] k = "PV_Voltage" -> <<"3", "0", "1">>
          [] k = "PV_Current" -> <<"a", "b", "c">>
          [] k = "PV_PowerW" -> <<"1", "0", "0", "0", "1">>
          [] k = "PV_DailyWh" -> <<"a", "b", "c">>
          [] k = "PV_MonthlyWd" -> <<"-", "1">>
          [] k = "PV_YearlyWm" -> <<"a", "b", "c">>
          [] k = "PV_TotalKWh" -> <<"1", "0", "0", "0", "0", "1">>
          [] k = "Voltage_1" -> <<"a", "b", "c">>
          [] k = "Current_1" -> <<"-", "1", "0", "1">>
          [] k = "Temp" -> <<"8", "1">>
          [] k = "SOC" -> <<"a", "b", "c">>
          [] k = "Voltage_2" -> <<"-", "1">>
          [] k = "Current_2" -> <<"a", "b", "c">>
          [] k = "Hz" -> <<"4", "4">>
          [] k = "Voltage_3" -> <<"a", "b", "c">>
          [] k = "Current_3" -> <<"1", "0", "1">>
          [] k = "Hz_1" -> <<"6", "6">>
          [] k = "Hex" -> <<"0", "3">>
          [] OTHER -> Undefined]

\* the second data row of the sample file: no ID, no date
OnlyTimeRow ==
    [k \in RowKeys |->
        CASE k = "Time" -> <<"2", "1", ":", "0", "6">>
          [] k = "Blackout" -> <<"-">>
          [] k = "PV_Voltage" -> <<"0">>
          [] k = "PV_Current" -> <<"0">>
          [] k = "PV_PowerW" -> <<"0">>
          [] k = "Voltage_1" -> <<"2", "5", ".", "9">>
          [] k = "Current_1" -> <<"0">>
          [] k = "Temp" -> <<"2", "7">>
          [] k = "SOC" -> <<"9", "8">>
          [] k = "Voltage_2" -> <<"2", "0", "8", ".", "0", "9">>
          [] k = "Current_2" -> <<"0">>
          [] k = "Hz" -> <<"6", "0">>
          [] k = "Voltage_3" -> <<"2", "0", "6", ".", "6", "3">>
          [] k = "Current_3" -> <<"0">>
          [] k = "Hz_1" -> <<"6", "0">>
          [] k = "Hex" -> <<"0", "x", "0", "3">>
          [] k = "ID" -> <<>>
          [] k = "Date" -> <<>>
          [] k = "Name" -> <<>>
          [] k = "InvSupply_TotalKWh" -> <<>>
          [] k = "PV_DailyWh" -> <<>>
          [] k = "PV_MonthlyWd" -> <<>>
          [] k = "PV_YearlyWm" -> <<>>
          [] k = "PV_TotalKWh" -> <<>>
          [] OTHER -> Undefined]

\* a row of a file that has none of the columns
EmptyRow == [k \in RowKeys |-> Undefined]

\* a row identified by its date alone
DateOnlyRow == [EmptyRow EXCEPT !["Date"] = <<"2", "0", "2", "5", "-", "0", "9", "-", "2", "9">>,
                                !["Time"] = <<"9", ":", "0", "5">>]

BaseRows == {GoodRow, BadRow, EmptyRow}

\* the cells one column of a base row is replaced by
EditCells ==
    {Undefined, Empty, <<"-">>, <<"a", "b", "c">>, <<"9", "9", "9", "9", "9", "9">>,
     <<"5", "0", ".", "5">>, <<"2", "0", "2", "4", "-", "0", "2", "-", "3", "0">>,
     <<"2", "0", "2", "5", "-", "1", "3", "-", "0", "1">>,
     <<"2", "0", "2", "5", "-", "0", "9", "-", "2", "8">>, <<"9", ":", "0", "5">>,
     <<"0", "x", "1", "F">>, <<"y", "e", "s">>}

\* one column of a base row replaced; the range bounds are tried on the good row
SingleEdits ==
    {[base EXCEPT ![k] = v] : base \in BaseRows, k \in RowKeys, v \in EditCells}
    \cup {[GoodRow EXCEPT ![k] = v] : k \in RowKeys, v \in BoundaryLiterals}

\* two columns of the good row made to fail, two of the bad row emptied
PairEdits ==
    {[GoodRow EXCEPT ![k1] = <<"a", "b", "c">>, ![k2] = <<"a", "b", "c">>] :
        k1 \in RowKeys, k2 \in RowKeys}
    \cup {[BadRow EXCEPT ![k1] = Empty, ![k2] = Empty] : k1 \in RowKeys, k2 \in RowKeys}

\* every combination of an ID cell and a Date cell, the other columns absent or good
IdentityEdits ==
    {[base EXCEPT !["ID"] = id, !["Date"] = date] :
        base \in {EmptyRow, OnlyTimeRow, GoodRow},
        id \in {Undefined, Empty, <<"H", "1">>, <<"0">>, <<" ">>},
        date \in {Undefined, Empty, <<"a", "b", "c">>, <<" ">>,
                  <<"2", "0", "2", "5", "-", "1", "3", "-", "0", "1">>,
                  <<"2", "0", "2", "4", "-", "0", "2", "-", "3", "0">>,
                  <<"2", "0", "2", "5", "-", "0", "9", "-", "2", "8">>}}

\* the columns parseRow reads under two names: the canonical one, the legacy one
AliasedColumns ==
    {<<"InvSupply_TotalKWh", "Total kWh">>, <<"PV_Voltage", "Voltage">>,
     <<"PV_Current", "Current">>, <<"PV_PowerW", "Power W">>,
     <<"PV_DailyWh", "Daily Wh">>, <<"PV_MonthlyWd", "Monthly Wd">>,
     <<"PV_YearlyWm", "Yearly Wm">>, <<"PV_TotalKWh", "Total kWh">>}

\* the good row with a cell, or none, under each of the two names of a column
AliasEdits ==
    {[GoodRow EXCEPT ![pair[1]] = canonical, ![pair[2]] = legacy] :
        pair \in AliasedColumns,
        canonical \in {Undefined, Empty, <<"5", "0", ".", "5">>},
        legacy \in {Undefined, Empty, <<"7">>, <<"a", "b", "c">>}}

RowInputs == SingleEdits \cup PairEdits \cup IdentityEdits \cup AliasEdits

FewRows == {GoodRow, BadRow, EmptyRow, OnlyTimeRow, DateOnlyRow}

PapaError(row) == [row |-> row, message |-> "Too few fields"]

\* the errors the tokenizer reports beside its rows
PapaErrorInputs ==
    {<<>>, <<PapaError(NoRow)>>, <<PapaError(0)>>, <<PapaError(1)>>,
     <<PapaError(1), PapaError(0)>>}

\* what the tokenizer hands to the complete callback
ResultsInputs ==
    {[data |-> <<row>>, errors |-> <<>>] : row \in RowInputs}
    \cup {[data |-> data, errors |-> errors] :
            data \in UNION {[1..n -> FewRows] : n \in 0..MaxRows},
            errors \in PapaErrorInputs}

(***************************************************************************)
(* The objects that live across calls: the streaming service               *)
(* (services/websocket-service.ts) and the provider of app/layout.tsx,     *)
(* as their constructors leave them.                                       *)
(***************************************************************************)
\* the JavaScript value null
Null == "null"

\* new WebSocketService(): the fields after the constructor.  A timer field
\* is Null or "interval"; timeouts counts the setTimeout callbacks of
\* reconnect that have not fired; eventListeners tells whether the listeners
\* of the provider are registered; dataGenerator tells whether
\* generateRealtimeData returns a record ("ok") or throws ("throws").
WebSocketService ==
    [config |-> [updateInterval |-> 5000, maxRetries |-> 5, reconnectDelay |-> 2000,
                 heartbeatInterval |-> 30000],
     status |-> [connected |-> FALSE, lastUpdate |-> Null, retryCount |-> 0,
                 error |-> Null],
     updateTimer |-> Null,
     heartbeatTimer |-> Null,
     eventListeners |-> FALSE,
     dataCache |-> <<>>,
     dataGenerator |-> "ok",
     timeouts |-> 0]

\* RealtimeDataProvider before its effect has run: the connection state of
\* useState, the values the last render closed over (rendered), and the
\* closures of connect waiting in setTimeout (timeouts).  The data shown
\* (currentData, historicalData, lastUpdate) is read by no connection
\* decision and is left out.
RealtimeDataProvider ==
    [mounted |-> FALSE,
     isConnected |-> FALSE,
     isConnecting |-> FALSE,
     connectionError |-> Null,
     retryCount |-> 0,
     rendered |-> [isConnected |-> FALSE, isConnecting |-> FALSE],
     timeouts |-> <<>>]

(***************************************************************************)
(* The validators called on their own: one action per exported function.   *)
(* call holds the arguments, ret the returned object.                      *)
(***************************************************************************)
Idle == [op |-> "idle"]

NoResult == [value |-> Undefined, error |-> NoError]

Init ==
    /\ engine = "none"
    /\ call = Idle
    /\ ret = NoResult
    /\ service = WebSocketService
    /\ context = RealtimeDataProvider

\* the arguments of a validator call
Call(op, value, ctx) ==
    [op |-> op, value |-> value, fieldName |-> ctx.field, rowIndex |-> ctx.row]

ValidateNumber ==
    /\ call = Idle
    /\ \E value \in NumberInputs, ctx \in Contexts, range \in NumberRanges :
        /\ call' = [op |-> "validateNumber", value |-> value, fieldName |-> ctx.field,
                    rowIndex |-> ctx.row, min |-> range.min, max |-> range.max]
        /\ ret' = validateNumber(value, ctx.field, range.min, range.max, ctx.row)
    /\ UNCHANGED <<engine, service, context>>

ValidateDate ==
    /\ call = Idle
    /\ \E value \in DateInputs, ctx \in Contexts :
        /\ call' = Call("validateDate", value, ctx)
        /\ \E eng \in Engines :
            /\ engine' = eng
            /\ ret' = validateDate(value, ctx.field, ctx.row, eng)
    /\ UNCHANGED <<service, context>>

ValidateTime ==
    /\ call = Idle
    /\ \E value \in TimeInputs, ctx \in Contexts :
        /\ call' = Call("validateTime", value, ctx)
        /\ ret' = validateTime(value, ctx.field, ctx.row)
    /\ UNCHANGED <<engine, service, context>>

ValidateBlackout ==
    /\ call = Idle
    /\ \E value \in BlackoutInputs, ctx \in Contexts :
        /\ call' = Call("validateBlackout", value, ctx)
        /\ ret' = validateBlackout(value, ctx.field, ctx.row)
    /\ UNCHANGED <<engine, service, context>>

ValidateHex ==
    /\ call = Idle
    /\ \E value \in HexInputs, ctx \in Contexts :
        /\ call' = Call("validateHex", value, ctx)
        /\ ret' = validateHex(value, ctx.field, ctx.row)
    /\ UNCHANGED <<engine, service, context>>

NextValidation ==
    \/ ValidateNumber
    \/ ValidateDate
    \/ ValidateTime
    \/ ValidateBlackout
    \/ ValidateHex

SpecValidation == Init /\ [][NextValidation]_vars

(***************************************************************************)
(* parseCSV: the tokenizer calls back complete or error, once              *)
(***************************************************************************)
ParseCSVComplete ==
    /\ call = Idle
    /\ \E results \in ResultsInputs, eng \in Engines :
        /\ call' = [op |-> "parseCSV", done |-> "complete", results |-> results]
        /\ engine' = eng
        /\ ret' = parseCSVComplete(results, eng)
    /\ UNCHANGED <<service, context>>

ParseCSVError ==
    /\ call = Idle
    /\ \E error \in {[message |-> "Unable to read input"], [message |-> "Aborted"]},
          eng \in Engines :
        /\ call' = [op |-> "parseCSV", done |-> "error", error |-> error]
        /\ engine' = eng
        /\ ret' = parseCSVError(error)
    /\ UNCHANGED <<service, context>>

NextParse ==
    \/ ParseCSVComplete
    \/ ParseCSVError

SpecParse == Init /\ [][NextParse]_vars

(***************************************************************************)
(* Properties of the validators (SpecValidation)                           *)
(***************************************************************************)
Str101 == <<"1", "0", "1">>

Str100 == <<"1", "0", "0">>

\* ret carries an error of the given type with the call's row, field and raw value
ErrorOf(type) ==
    /\ ret.error # NoError
    /\ ret.error.type = type
    /\ ret.error.row = call.rowIndex
    /\ ret.error.field = call.fieldName
    /\ ret.error.value = call.value

\* C3: validateNumber(raw, field, min, max, row) returns (0, no error) when raw
\* is empty, "-" or absent; (0, 'conversion' error) when raw is not numeric; the
\* parsed number itself, unclamped, with a 'validation' error when it is below
\* min or above max; the parsed number and no error when min <= number <= max,
\* both bounds included.  Every error carries the row, the field name and raw.
C3_ValidateNumberCases ==
    call.op = "validateNumber" =>
        LET raw == call.value
            n == StringToNumber(raw)
        IN  /\ raw \in {Empty, <<"-">>, Undefined} =>
                ret.value = Zero /\ ret.error = NoError
            /\ raw \notin {Empty, <<"-">>, Undefined} /\ isNaN(n) =>
                ret.value = Zero /\ ErrorOf("conversion")
            /\ raw \notin {Empty, <<"-">>, Undefined} /\ ~isNaN(n)
                  /\ (CmpInt(n, call.min) < 0 \/ CmpInt(n, call.max) > 0) =>
                ret.value = n /\ ErrorOf("validation")
            /\ raw \notin {Empty, <<"-">>, Undefined} /\ ~isNaN(n)
                  /\ CmpInt(n, call.min) >= 0 /\ CmpInt(n, call.max) <= 0 =>
                ret.value = n /\ ret.error = NoError
            /\ raw = Str101 /\ call.max = 100 =>
                ret.value = [k |-> "fin", neg |-> FALSE, m |-> 101, e |-> 0]
                /\ ErrorOf("validation")
            /\ raw = Str100 /\ call.max = 100 =>
                ret.value = [k |-> "fin", neg |-> FALSE, m |-> 1, e |-> 2]
                /\ ret.error = NoError
            /\ raw = <<"a">> => ret.value = Zero /\ ErrorOf("conversion")

\* an out-of-range number was returned unclamped with a 'validation' error
C3_Witness ==
    /\ call.op = "validateNumber"
    /\ call.max = 100
    /\ call.value = Str101
    /\ ret.error # NoError
    /\ ret.error.type = "validation"
    /\ ret.value.m = 101

\* the date s (of the shape YYYY-MM-DD) names a day of the calendar
RealCalendarDate(s) ==
    LET y  == DigitsToNat(Sub(s, 1, 4), 10)
        mo == DigitsToNat(Sub(s, 6, 7), 10)
        d  == DigitsToNat(Sub(s, 9, 10), 10)
    IN  mo \in 1..12 /\ d \in 1..DaysInMonth(y, mo)

\* four digits, two digits, two digits, joined by "-"
DateShape(s) ==
    /\ Len(s) = 10
    /\ s[5] = "-" /\ s[8] = "-"
    /\ \A i \in (1..10) \ {5, 8} : s[i] \in {DigitChars[j] : j \in 1..10}

\* C5: validateDate classifies every input into exactly one outcome, in this
\* precedence: empty or absent gives "" and a 'missing' error; not of the shape
\* YYYY-MM-DD gives a 'format' error; of the shape but not a real calendar date
\* (month 13, day 32, February 30) gives a 'validation' error; only a real
\* calendar date gives no error.  Outside the missing case the value is raw.
C5_ValidateDateClassifies ==
    call.op = "validateDate" =>
        LET raw == call.value
        IN  IF raw \in {Empty, Undefined}
            THEN ret.value = Empty /\ ErrorOf("missing")
            ELSE IF ~DateShape(raw)
            THEN ret.value = raw /\ ErrorOf("format")
            ELSE IF ~RealCalendarDate(raw)
            THEN ret.value = raw /\ ErrorOf("validation")
            ELSE ret.value = raw /\ ret.error = NoError

\* hour 0..23 in one or two digits, ":", minute 00..59 in two digits
IsClockTime(s) ==
    \E n \in 1..2 :
        /\ Len(s) = n + 3
        /\ \A i \in (1..(n + 3)) \ {n + 1} : s[i] \in {DigitChars[j] : j \in 1..10}
        /\ s[n + 1] = ":"
        /\ DigitsToNat(Sub(s, 1, n), 10) \in 0..23
        /\ DigitsToNat(Sub(s, n + 2, n + 3), 10) \in 0..59

\* C6: validateTime returns no error exactly for H:MM or HH:MM with hour 0..23
\* and minute 00..59; empty or absent input gives "" and a 'missing' error;
\* every other input gives a 'format' error with the raw input as value.
C6_ValidateTimeCases ==
    call.op = "validateTime" =>
        LET raw == call.value
        IN  IF raw \in {Empty, Undefined}
            THEN ret.value = Empty /\ ErrorOf("missing")
            ELSE IF IsClockTime(raw)
            THEN ret.value = raw /\ ret.error = NoError
            ELSE ret.value = raw /\ ErrorOf("format")

\* a time with seconds was refused with a 'format' error
C6_Witness ==
    /\ call.op = "validateTime"
    /\ call.value = <<"2", "1", ":", "0", "5", ":", "0", "0">>
    /\ ret.error # NoError
    /\ ret.error.type = "format"

TrueTokens == CaseVariants(<<"t", "r", "u", "e">>) \cup {<<"1">>} \cup CaseVariants(<<"y", "e", "s">>)

FalseTokens ==
    CaseVariants(<<"f", "a", "l", "s", "e">>) \cup {<<"0">>} \cup CaseVariants(<<"n", "o">>)

\* C7: validateBlackout maps empty or "-" to unknown without error, true/1/yes
\* in any letter case to true, false/0/no in any letter case to false, and every
\* other input to unknown with a 'validation' error: an error is reported if
\* and only if the input is none of the accepted tokens.
C7_ValidateBlackoutTriState ==
    call.op = "validateBlackout" =>
        LET raw == call.value
        IN  /\ raw \in {Empty, <<"-">>} => ret.value = "null" /\ ret.error = NoError
            /\ raw \in TrueTokens => ret.value = "true" /\ ret.error = NoError
            /\ raw \in FalseTokens => ret.value = "false" /\ ret.error = NoError
            /\ raw \notin {Empty, <<"-">>} \cup TrueTokens \cup FalseTokens =>
                ret.value = "null" /\ ErrorOf("validation")
            /\ ret.error # NoError <=>
                raw \notin {Empty, <<"-">>} \cup TrueTokens \cup FalseTokens

\* a mixed-case token was accepted
C7_Witness ==
    /\ call.op = "validateBlackout"
    /\ call.value = <<"Y", "e", "s">>
    /\ ret.value = "true"

HexDigitChars ==
    {DigitChars[j] : j \in 1..10} \cup {"a", "b", "c", "d", "e", "f", "A", "B", "C", "D", "E", "F"}

\* "0x" followed by one or more hexadecimal digits
IsHexCode(s) ==
    /\ Len(s) >= 3
    /\ SubSeq(s, 1, 2) = <<"0", "x">>
    /\ \A i \in 3..Len(s) : s[i] \in HexDigitChars

\* C8: validateHex returns "0x00" without error for empty input, the input
\* unchanged without error exactly when it is "0x" followed by one or more
\* hexadecimal digits of either case, and a 'format' error for every other
\* non-empty input, "03" and "0x" included.
C8_ValidateHexCases ==
    call.op = "validateHex" =>
        LET raw == call.value
        IN  /\ raw \in {Empty, Undefined} =>
                ret.value = <<"0", "x", "0", "0">> /\ ret.error = NoError
            /\ raw \notin {Empty, Undefined} /\ IsHexCode(raw) =>
                ret.value = raw /\ ret.error = NoError
            /\ raw \notin {Empty, Undefined} /\ ~IsHexCode(raw) => ErrorOf("format")
            /\ raw \in {<<"0", "3">>, <<"0", "x">>} => ErrorOf("format")

\* "0x" without digits was refused
C8_Witness ==
    /\ call.op = "validateHex"
    /\ call.value = <<"0", "x">>
    /\ ret.error # NoError
    /\ ret.error.type = "format"

(***************************************************************************)
(* Properties of parseRow and parseCSV (SpecParse)                         *)
(***************************************************************************)
\* parseCSV was called and the tokenizer completed
Complete == call.op = "parseCSV" /\ call.done = "complete"

\* the data rows the tokenizer handed over
Rows == call.results.data

\* a cell that is there and not empty
Present(cell) == cell \notin {Undefined, Empty}

\* the text of a cell, "" when it is absent
TextOf(cell) == IF Present(cell) THEN cell ELSE Empty

\* the rows with an ID cell or a Date cell
AcceptedIndices ==
    {i \in 1..Len(Rows) : Present(Rows[i]["ID"]) \/ Present(Rows[i]["Date"])}

\* the place in data of the record of the accepted row i
PositionOf(i) == Cardinality({k \in AcceptedIndices : k <= i})

\* the errors reported for the field of the row i (line i + 1 of the file)
ErrorsFor(i, field) ==
    SelectSeq(ret.errors, LAMBDA e : e.row = i + 1 /\ e.field = field)

\* the errors parseRow reported for the row i: those of the tokenizer, and the
\* one of the conversion to a datetime, set aside
ValidatorErrors(i) ==
    SelectSeq(ret.errors,
              LAMBDA e : e.row = i + 1 /\ e.field \notin {"parsing", "datetime"})

\* C1: for every data row handed to parseRow by parseCSV, if the ID cell or the
\* Date cell is non-empty (the date may be malformed) exactly one record is
\* appended to data for that row; if both are empty no record is appended and
\* the errors reported for the row include a 'missing' error on Date.
C1_RowAcceptance ==
    Complete =>
        /\ Len(ret.data) = Cardinality(AcceptedIndices)
        /\ \A i \in AcceptedIndices :
            /\ ret.data[PositionOf(i)].userRecord.id = TextOf(Rows[i]["ID"])
            /\ ret.data[PositionOf(i)].userRecord.timestamp.date = TextOf(Rows[i]["Date"])
        /\ \A i \in (1..Len(Rows)) \ AcceptedIndices :
            /\ ErrorsFor(i, "Date") # <<>>
            /\ ErrorsFor(i, "Date")[1].type = "missing"

\* a row without ID whose date is malformed gave a record
C1_Witness ==
    /\ Complete
    /\ Len(Rows) = 1
    /\ ~Present(Rows[1]["ID"])
    /\ Rows[1]["Date"] = <<"a", "b", "c">>
    /\ Len(ret.data) = 1
    /\ ErrorsFor(1, "Date") # <<>>

\* C2: every result of parseCSV, resolved by the complete callback or by the
\* error callback, has successfulRows equal to the number of records of data
\* and at most totalRows.
C2_SuccessfulRowsCount ==
    call.op = "parseCSV" =>
        /\ ret.successfulRows = Len(ret.data)
        /\ ret.successfulRows <= ret.totalRows

\* of two rows one was refused
C2_Witness ==
    /\ Complete
    /\ ret.totalRows = 2
    /\ ret.successfulRows = 1
    /\ Len(ret.data) = 1

\* the 18 numeric fields: the error field name, the column and its legacy
\* name, the range of the physical quantity, the place in the record
NumericField(name, key, alias, min, max, group, prop) ==
    [name |-> name, key |-> key, alias |-> alias, min |-> min, max |-> max,
     group |-> group, prop |-> prop]

NumericFields ==
    <<NumericField("InvSupply_TotalKWh", "InvSupply_TotalKWh", "Total kWh", 0, 100000,
                   "inverterSupply", "totalKWh"),
      NumericField("PV_Voltage", "PV_Voltage", "Voltage", 0, 300, "pv", "voltage"),
      NumericField("PV_Current", "PV_Current", "Current", -100, 100, "pv", "current"),
      NumericField("PV_PowerW", "PV_PowerW", "Power W", 0, 10000, "pv", "powerW"),
      NumericField("PV_DailyWh", "PV_DailyWh", "Daily Wh", 0, 100000, "pv", "dailyWh"),
      NumericField("PV_MonthlyWd", "PV_MonthlyWd", "Monthly Wd", 0, 100000,
                   "pv", "monthlyWd"),
      NumericField("PV_YearlyWm", "PV_YearlyWm", "Yearly Wm", 0, 100000, "pv", "yearlyWm"),
      NumericField("PV_TotalKWh", "PV_TotalKWh", "Total kWh", 0, 100000, "pv", "totalKWh"),
      NumericField("Battery_Voltage", "Voltage_1", "Voltage_1", 0, 300,
                   "battery", "voltage"),
      NumericField("Battery_Current", "Current_1", "Current_1", -100, 100,
                   "battery", "current"),
      NumericField("Battery_Temp", "Temp", "Temp", -40, 80, "battery", "temperature"),
      NumericField("Battery_SOC", "SOC", "SOC", 0, 100, "battery", "soc"),
      NumericField("Inverter_Voltage", "Voltage_2", "Voltage_2", 0, 300,
                   "inverter", "voltage"),
      NumericField("Inverter_Current", "Current_2", "Current_2", -100, 100,
                   "inverter", "current"),
      NumericField("Inverter_Frequency", "Hz", "Hz", 45, 65, "inverter", "frequency"),
      NumericField("Grid_Voltage", "Voltage_3", "Voltage_3", 0, 300, "grid", "voltage"),
      NumericField("Grid_Current", "Current_3", "Current_3", -100, 100, "grid", "current"),
      NumericField("Grid_Frequency", "Hz_1", "Hz_1", 45, 65, "grid", "frequency")>>

\* the cell a numeric field is read from
CellOf(row, f) ==
    IF Present(row[f.key]) THEN row[f.key] ELSE TextOf(row[f.alias])

\* what validateNumber returns for the numeric field f of the row i
Expected(i, f) == validateNumber(CellOf(Rows[i], f), f.name, f.min, f.max, i + 1)

\* C4: each specialised validator returns what validateNumber returns with its
\* fixed range (voltage [0,300], current [-100,100], power [0,10000], energy
\* [0,100000], temperature [-40,80], SOC [0,100], frequency [45,65]), and
\* parseRow applies to each of the 18 numeric fields the validator of its
\* physical quantity: the value stored and the error reported for the field
\* are those of validateNumber with the range of the quantity.
C4_SpecialisedValidators ==
    Complete =>
        \A i \in 1..Len(Rows), n \in 1..Len(NumericFields) :
            /\ ErrorsFor(i, NumericFields[n].name) = Pushed(Expected(i, NumericFields[n]))
            /\ i \in AcceptedIndices =>
                ret.data[PositionOf(i)][NumericFields[n].group][NumericFields[n].prop]
                    = Expected(i, NumericFields[n]).value

\* a grid frequency of 66 Hz was stored and reported, one of 60 Hz on the
\* inverter side was stored without error
C4_Witness ==
    /\ Complete
    /\ Len(Rows) = 1
    /\ Rows[1]["Hz_1"] = <<"6", "6">>
    /\ Rows[1]["Hz"] = <<"6", "0">>
    /\ Len(ret.data) = 1
    /\ ret.data[1].grid.frequency = [k |-> "fin", neg |-> FALSE, m |-> 66, e |-> 0]
    /\ ErrorsFor(1, "Grid_Frequency") # <<>>
    /\ ErrorsFor(1, "Grid_Frequency")[1].type = "validation"
    /\ ret.data[1].inverter.frequency = [k |-> "fin", neg |-> FALSE, m |-> 6, e |-> 1]
    /\ ErrorsFor(1, "Inverter_Frequency") = <<>>

\* the value a failed date, time or hex field holds: "" or, where the raw
\* input is kept, the cell itself unless it is missing
FailedText(i, field, cell, value, rawKept) ==
    ErrorsFor(i, field) # <<>> =>
        value = IF rawKept /\ ErrorsFor(i, field)[1].type # "missing" THEN cell ELSE Empty

\* the values the failed fields of every record hold
FailedFieldValues(rawKept) ==
    Complete =>
        \A i \in AcceptedIndices :
            /\ FailedText(i, "Date", Rows[i]["Date"],
                          ret.data[PositionOf(i)].userRecord.timestamp.date, rawKept)
            /\ FailedText(i, "Time", Rows[i]["Time"],
                          ret.data[PositionOf(i)].userRecord.timestamp.time, rawKept)
            /\ FailedText(i, "Status_Hex", Rows[i]["Hex"],
                          ret.data[PositionOf(i)].status.hex, rawKept)
            /\ ErrorsFor(i, "Blackout") # <<>> =>
                ret.data[PositionOf(i)].userRecord.blackout = "null"
            /\ \A n \in 1..Len(NumericFields) :
                ErrorsFor(i, NumericFields[n].name) # <<>> =>
                    ret.data[PositionOf(i)][NumericFields[n].group][NumericFields[n].prop]
                        = IF ErrorsFor(i, NumericFields[n].name)[1].type = "validation"
                          THEN StringToNumber(CellOf(Rows[i], NumericFields[n]))
                          ELSE Zero

\* C9, as stated: in every record of an accepted row each field whose
\* validation reported an error holds 0 if numeric, "" if it is the date, the
\* time or the hex code, unknown if it is the blackout flag; an out-of-range
\* number alone keeps its parsed value.
C9_FailedFieldsHoldFallback == FailedFieldValues(FALSE)

\* C9, amended: in every record of an accepted row a numeric field whose
\* validation reported an error holds 0, or its parsed value when it is out of
\* range; the blackout flag holds unknown; the date and the time hold "" when
\* they are missing and the raw input when they are malformed; the hex code
\* holds the raw input.
C9_FailedFieldsKeepRawText == FailedFieldValues(TRUE)

\* the record of a row with a malformed date, time and hex code holds the three
\* raw inputs
C9_Witness ==
    /\ Complete
    /\ Len(Rows) = 1
    /\ Len(ret.data) = 1
    /\ ErrorsFor(1, "Date") # <<>>
    /\ ErrorsFor(1, "Time") # <<>>
    /\ ErrorsFor(1, "Status_Hex") # <<>>
    /\ ret.data[1].userRecord.timestamp.date
          = <<"0", "9", "/", "2", "8", "/", "2", "0", "2", "5">>
    /\ ret.data[1].userRecord.timestamp.time = <<"2", "5", ":", "0", "0">>
    /\ ret.data[1].status.hex = <<"0", "3">>

\* the validated fields in the order of the file's columns
FieldOrder ==
    <<"Date", "Time", "Blackout", "InvSupply_TotalKWh",
      "PV_Voltage", "PV_Current", "PV_PowerW", "PV_DailyWh", "PV_MonthlyWd",
      "PV_YearlyWm", "PV_TotalKWh",
      "Battery_Voltage", "Battery_Current", "Battery_Temp", "Battery_SOC",
      "Inverter_Voltage", "Inverter_Current", "Inverter_Frequency",
      "Grid_Voltage", "Grid_Current", "Grid_Frequency", "Status_Hex">>

\* the validator of the field fails on the row i
Fails(i, field) ==
    CASE field = "Date" ->
            validateDate(TextOf(Rows[i]["Date"]), field, i + 1, engine).error # NoError
      [] field = "Time" ->
            validateTime(TextOf(Rows[i]["Time"]), field, i + 1).error # NoError
      [] field = "Blackout" ->
            validateBlackout(TextOf(Rows[i]["Blackout"]), field, i + 1).error # NoError
      [] field = "Status_Hex" ->
            validateHex(TextOf(Rows[i]["Hex"]), field, i + 1).error # NoError
      [] OTHER ->
            Expected(i, NumericFields[CHOOSE n \in 1..Len(NumericFields) :
                                        NumericFields[n].name = field]).error # NoError

\* the fields of the errors parseRow must report for the row i, in order
FailingFields(i) ==
    SelectSeq(FieldOrder, LAMBDA field : Fails(i, field))
    \o (IF i \in AcceptedIndices THEN <<>> ELSE <<"record">>)

\* C10: parseRow reports every failing field of a row, not only the first: the
\* errors of a row are one per field whose validator failed, in the order
\* Date, Time, Blackout, inverter-supply total, the 7 PV fields, the 4 battery
\* fields, the 3 inverter fields, the 3 grid fields, status hex, with the
\* error of field 'record' last when the row is refused.
C10_AllFailuresInFixedOrder ==
    Complete =>
        \A i \in 1..Len(Rows) :
            [k \in 1..Len(ValidatorErrors(i)) |-> ValidatorErrors(i)[k].field]
                = FailingFields(i)

\* a refused row whose 22 validated fields all fail: 23 errors, 'record' last
C10_Witness ==
    /\ Complete
    /\ Len(Rows) = 1
    /\ ret.data = <<>>
    /\ Len(ret.errors) = 23
    /\ ret.errors[1].field = "Date"
    /\ ret.errors[2].field = "Time"
    /\ ret.errors[22].field = "Status_Hex"
    /\ ret.errors[23].field = "record"

\* the row numbers never decrease along the errors
RowsNonDecreasing(errors) ==
    \A k \in 1..(Len(errors) - 1) : errors[k].row <= errors[k + 1].row

\* the errors of the rows, those of the tokenizer left out
RowLevelErrors == SelectSeq(ret.errors, LAMBDA e : e.field # "parsing")

\* the errors made of those of the tokenizer
TokenizerErrors == SelectSeq(ret.errors, LAMBDA e : e.field = "parsing")

\* C11, as stated: in the errors of every result the row numbers are
\* non-decreasing along the list, the errors of field 'parsing' made of the
\* tokenizer's included.
C11_ErrorsInRowOrder ==
    call.op = "parseCSV" => RowsNonDecreasing(ret.errors)

\* C11, amended: the errors of the rows come first, with non-decreasing row
\* numbers; the errors of field 'parsing' follow them all, in the order the
\* tokenizer reported them, whatever their row numbers.
C11_RowErrorsThenTokenizerErrors ==
    call.op = "parseCSV" =>
        /\ ret.errors = RowLevelErrors \o TokenizerErrors
        /\ RowsNonDecreasing(RowLevelErrors)
        /\ Complete =>
            /\ Len(TokenizerErrors) = Len(call.results.errors)
            /\ \A j \in 1..Len(TokenizerErrors) :
                TokenizerErrors[j].message.text = call.results.errors[j].message

\* an error of line 3 is followed by the tokenizer's error about line 2
C11_Witness ==
    /\ Complete
    /\ Len(ret.errors) >= 2
    /\ \E k \in 1..(Len(ret.errors) - 1) :
        /\ ret.errors[k].row = 3
        /\ ret.errors[k].field # "parsing"
        /\ ret.errors[k + 1].row = 2
        /\ ret.errors[k + 1].field = "parsing"

\* the column a validated field is read from
ColumnOf(field) ==
    CASE field = "Date" -> "Date"
      [] field = "Time" -> "Time"
      [] field = "Blackout" -> "Blackout"
      [] field = "Status_Hex" -> "Hex"

\* the raw text the validator of the field was given for the row i
RawOf(i, field) ==
    IF field \in {"Date", "Time", "Blackout", "Status_Hex"}
    THEN TextOf(Rows[i][ColumnOf(field)])
    ELSE CellOf(Rows[i], NumericFields[CHOOSE n \in 1..Len(NumericFields) :
                                         NumericFields[n].name = field])

\* C12: every error of a field validator or of parseRow for the data row of
\* 0-based index i carries row = i + 2 (here the row i, counted from 1, carries
\* i + 1): each failing field of the row has its one error under that number,
\* with the row's own cell as value, a refused row has its 'record' error
\* there, and every such error has 2 <= row <= totalRows + 1.
C12_RowNumberIsIndexPlusTwo ==
    Complete =>
        /\ \A k \in 1..Len(RowLevelErrors) :
            RowLevelErrors[k].row >= 2 /\ RowLevelErrors[k].row <= ret.totalRows + 1
        /\ \A i \in 1..Len(Rows) :
            /\ \A n \in 1..Len(FieldOrder) :
                IF Fails(i, FieldOrder[n])
                THEN /\ Len(ErrorsFor(i, FieldOrder[n])) = 1
                     /\ ErrorsFor(i, FieldOrder[n])[1].value = RawOf(i, FieldOrder[n])
                ELSE ErrorsFor(i, FieldOrder[n]) = <<>>
            /\ Len(ErrorsFor(i, "record")) = (IF i \in AcceptedIndices THEN 0 ELSE 1)

\* the second of two rows is the one that fails: its errors carry row 3
C12_Witness ==
    /\ Complete
    /\ Len(Rows) = 2
    /\ Rows[1] = GoodRow
    /\ Rows[2] = BadRow
    /\ Len(RowLevelErrors) = 22
    /\ \A k \in 1..22 : RowLevelErrors[k].row = 3

\* the aliased fields: those of NumericFields read under two names
AliasedFields == {n \in 1..Len(NumericFields) : NumericFields[n].key # NumericFields[n].alias}

\* the field f of the row i was validated, and stored, from the text
ValidatedFrom(i, f, text) ==
    /\ ErrorsFor(i, f.name) = Pushed(validateNumber(text, f.name, f.min, f.max, i + 1))
    /\ i \in AcceptedIndices =>
        ret.data[PositionOf(i)][f.group][f.prop]
            = validateNumber(text, f.name, f.min, f.max, i + 1).value

\* the cell of an aliased field: that of the canonical key when the key is in
\* the row (or, when only non-empty cells count, when its cell is not empty),
\* else that of the legacy key
AliasedCell(row, f, emptyCounts) ==
    IF (IF emptyCounts THEN row[f.key] # Undefined ELSE Present(row[f.key]))
    THEN TextOf(row[f.key])
    ELSE TextOf(row[f.alias])

C15_AlwaysResolvesAResult ==
    call.op = "parseCSV" =>
        /\ DOMAIN ret = {"data", "errors", "totalRows", "successfulRows"}
        /\ call.done = "error" =>
            /\ ret.data = <<>>
            /\ ret.totalRows = 0
            /\ ret.successfulRows = 0
            /\ Len(ret.errors) = 1
            /\ ret.errors[1].type = "format"
            /\ ret.errors[1].field = "file"
            /\ ret.errors[1].row = 0
        /\ call.done = "complete" =>
            /\ Len(TokenizerErrors) = Len(call.results.errors)
            /\ \A j \in 1..Len(TokenizerErrors) : TokenizerErrors[j].type = "format"
            /\ Len(ret.data) = Cardinality(AcceptedIndices)
            /\ ret.totalRows = Len(Rows)

\* the tokenizer complained twice about a file whose two rows gave two records
C15_Witness ==
    /\ Complete
    /\ Len(call.results.errors) = 2
    /\ Len(TokenizerErrors) = 2
    /\ Len(Rows) = 2
    /\ Len(ret.data) = 2

\* C16: in every record produced by parseRow, timestamp.datetime is present
\* only if neither the Date validator nor the Time validator reported an error
\* for the row.
C16_DatetimeOnlyIfDateAndTimeValid ==
    Complete =>
        \A i \in AcceptedIndices :
            ret.data[PositionOf(i)].userRecord.timestamp.datetime # Undefined =>
                /\ ErrorsFor(i, "Date") = <<>>
                /\ ErrorsFor(i, "Time") = <<>>
                /\ ~Fails(i, "Date")
                /\ ~Fails(i, "Time")

\* a record has its datetime, another, of a row whose time alone fails, has none
C16_Witness ==
    /\ Complete
    /\ Len(Rows) = 2
    /\ Len(ret.data) = 2
    /\ ret.data[1].userRecord.timestamp.datetime # Undefined
    /\ ErrorsFor(1, "Date") = <<>>
    /\ ErrorsFor(1, "Time") = <<>>
    /\ ret.data[2].userRecord.timestamp.datetime = Undefined

\* what parseRow returns for the row i taken alone, under its own index
Alone(i) == parseRow(Rows[i], i + 1, engine)

\* C17: when the tokenizer completes, data is the in-order concatenation of the
\* records of the accepted rows and the errors of the rows are the in-order
\* concatenation of the per-row error lists; the record and the errors of a
\* row are those of that row's cells and index alone, so that a failing or
\* refused row neither stops the later rows nor changes what another row gives.
C17_RowsAreIndependent ==
    Complete =>
        /\ ret.data = Flatten([i \in 1..Len(Rows) |-> Alone(i).record])
        /\ RowLevelErrors = Flatten([i \in 1..Len(Rows) |-> Alone(i).errors])
        /\ \A i \in 1..Len(Rows) :
            /\ i \in AcceptedIndices => <<ret.data[PositionOf(i)]>> = Alone(i).record
            /\ SelectSeq(ret.errors, LAMBDA e : e.row = i + 1 /\ e.field # "parsing")
                  = Alone(i).errors

\* a refused row is followed by the good row, whose record is there
C17_Witness ==
    /\ Complete
    /\ Len(Rows) = 2
    /\ Rows[1] = EmptyRow
    /\ Rows[2] = GoodRow
    /\ Len(ret.data) = 1
    /\ ret.data[1].userRecord.id = GoodRow["ID"]
    /\ ErrorsFor(1, "record") # <<>>
    /\ SelectSeq(ret.errors, LAMBDA e : e.row = 3) = <<>>

(***************************************************************************)
(* parseCSV from the text: the tokenizer (Papa.parse under                 *)
(* CSV_PARSE_CONFIG) makes the header-keyed rows that parseRow reads.      *)
(* A header is written in pieces, a piece being a run of blanks or a text  *)
(* without blanks at its ends; a cell is a string as everywhere else.      *)
(***************************************************************************)
RECURSIVE StripLeading(_)
\* the pieces of a header without its leading blanks
StripLeading(header) ==
    IF header # <<>> /\ Head(header) = " " THEN StripLeading(Tail(header)) ELSE header

RECURSIVE StripTrailing(_)
\* the pieces of a header without its trailing blanks
StripTrailing(header) ==
    IF header # <<>> /\ header[Len(header)] = " "
    THEN StripTrailing(SubSeq(header, 1, Len(header) - 1))
    ELSE header

RECURSIVE Joined(_)
\* the text the pieces make
Joined(header) == IF header = <<>> THEN "" ELSE Head(header) \o Joined(Tail(header))

\* header.trim()
cleanHeader(header) == Joined(StripTrailing(StripLeading(header)))

\* the switch of transformHeader on the clean header: the first case that
\* matches returns, so the second case 'Total kWh' is never taken
switchHeader(clean) ==
    IF clean = "Total kWh" THEN "InvSupply_TotalKWh"
    ELSE IF clean = "Voltage" THEN "PV_Voltage"
    ELSE IF clean = "Current" THEN "PV_Current"
    ELSE IF clean = "Power W" THEN "PV_PowerW"
    ELSE IF clean = "Daily Wh" THEN "PV_DailyWh"
    ELSE IF clean = "Monthly Wd" THEN "PV_MonthlyWd"
    ELSE IF clean = "Yearly Wm" THEN "PV_YearlyWm"
    ELSE IF clean = "Total kWh" THEN "PV_TotalKWh"
    ELSE clean

\* CSV_PARSE_CONFIG.transformHeader
transformHeader(header) == switchHeader(cleanHeader(header))

\* What the tokenizer does with two columns of the same name is the
\* library's, and differs with its version: the later column overwrites the
\* earlier one under the transformed name ("overwrite"); or the repeated
\* transformed name gets the suffix _1, _2, ... ("renameTransformed"); or the
\* repeated raw name gets the suffix before transformHeader is applied
\* ("renameRaw").
Tokenizers == {"overwrite", "renameTransformed", "renameRaw"}

\* how many earlier members of the sequence equal the j-th
Earlier(names, j) == Cardinality({k \in 1..(j - 1) : names[k] = names[j]})

\* a name with the suffix of its repetition
Suffixed(name, count) == IF count = 0 THEN name ELSE name \o "_" \o ToString(count)

\* the keys of the columns, from the header line
headerFields(headers, tokenizer) ==
    CASE tokenizer = "overwrite" ->
            [j \in 1..Len(headers) |-> transformHeader(headers[j])]
      [] tokenizer = "renameTransformed" ->
            [j \in 1..Len(headers) |->
                Suffixed(transformHeader(headers[j]),
                         Earlier([k \in 1..Len(headers) |-> transformHeader(headers[k])], j))]
      [] tokenizer = "renameRaw" ->
            [j \in 1..Len(headers) |->
                transformHeader(
                    <<Suffixed(Joined(headers[j]),
                               Earlier([k \in 1..Len(headers) |-> Joined(headers[k])], j))>>)]

\* the columns of a line that have a key: the cells past the header's end are
\* kept aside by the tokenizer, under no key of the header
Keyed(fields, cells) == IF Len(cells) < Len(fields) THEN Len(cells) ELSE Len(fields)

\* the row object of a line: each key holds the cell of the last column of
\* that key, a key whose column the line does not reach is absent
rowObject(fields, cells) ==
    [key \in RowKeys |->
        IF \E j \in 1..Keyed(fields, cells) : fields[j] = key
        THEN cells[CHOOSE j \in 1..Keyed(fields, cells) :
                    /\ fields[j] = key
                    /\ \A k \in (j + 1)..Keyed(fields, cells) : fields[k] # key]
        ELSE Undefined]

\* skipEmptyLines: the lines that are one empty cell are dropped
dataLines(lines) == SelectSeq(lines, LAMBDA cells : cells # <<Empty>>)

\* the tokenizer's error about a line that has not the header's number of cells
fieldMismatch(fields, lines) ==
    [j \in 1..Len(SelectSeq([i \in 1..Len(lines) |-> i],
                            LAMBDA i : Len(lines[i]) # Len(fields))) |->
        [row |-> SelectSeq([i \in 1..Len(lines) |-> i],
                           LAMBDA i : Len(lines[i]) # Len(fields))[j] - 1,
         message |-> IF Len(lines[SelectSeq([i \in 1..Len(lines) |-> i],
                                            LAMBDA i : Len(lines[i]) # Len(fields))[j]])
                            < Len(fields)
                     THEN "Too few fields"
                     ELSE "Too many fields"]]

\* Papa.parse(csvContent, {header: true, skipEmptyLines: true,
\* dynamicTyping: false, transformHeader}): the results handed to complete
tokenized(fields, lines) ==
    [data |-> [i \in 1..Len(lines) |-> rowObject(fields, lines[i])],
     errors |-> fieldMismatch(fields, lines)]

papaParse(headers, lines, tokenizer) ==
    tokenized(headerFields(headers, tokenizer), dataLines(lines))

(***************************************************************************)
(* Explored files                                                          *)
(***************************************************************************)
\* the header line of the inverter's export: second line of the sample file
DeviceHeader ==
    <<<<"ID">>, <<"Date">>, <<"Time">>, <<"Name">>, <<"Blackout">>,
      <<"Total kWh">>,
      <<"Voltage">>, <<"Current">>, <<"Power W">>, <<"Daily Wh">>, <<"Monthly Wd">>,
      <<"Yearly Wm">>, <<"Total kWh">>,
      <<"Voltage">>, <<"Current">>, <<"Temp">>, <<"SOC">>,
      <<"Voltage">>, <<"Current">>, <<"Hz">>,
      <<"Voltage">>, <<"Current">>, <<"Hz">>,
      <<"Hex">>>>

\* the same header with blanks around each name
PaddedHeader == [j \in 1..Len(DeviceHeader) |-> <<" ">> \o DeviceHeader[j] \o <<" ", " ">>]

\* a header already written with the keys parseRow reads
CanonicalHeader ==
    <<<<"ID">>, <<"Date">>, <<"Time">>, <<"Name">>, <<"Blackout">>,
      <<"InvSupply_TotalKWh">>,
      <<"PV_Voltage">>, <<"PV_Current">>, <<"PV_PowerW">>, <<"PV_DailyWh">>,
      <<"PV_MonthlyWd">>, <<"PV_YearlyWm">>, <<"PV_TotalKWh">>,
      <<"Voltage_1">>, <<"Current_1">>, <<"Temp">>, <<"SOC">>,
      <<"Voltage_2">>, <<"Current_2">>, <<"Hz">>,
      <<"Voltage_3">>, <<"Current_3">>, <<"Hz_1">>,
      <<"Hex">>>>

HeaderInputs == {DeviceHeader, PaddedHeader, CanonicalHeader}

\* a line of 24 cells, the numeric cell of the column j holding j + offset
FullLine(id, offset) ==
    [j \in 1..24 |->
        CASE j = 1 -> id
          [] j = 2 -> <<"2", "0", "2", "5", "-", "0", "9", "-", "2", "8">>
          [] j = 3 -> <<"2", "1", ":", "0", "5">>
          [] j = 4 -> <<"T", "P">>
          [] j = 5 -> <<"-">>
          [] j = 24 -> <<"0", "x", "0", "3">>
          [] OTHER -> IntToStr(j + offset)]

LineInputs ==
    {FullLine(<<"H", "1">>, 0), FullLine(<<"H", "2">>, 30), FullLine(Empty, 60),
     SubSeq(FullLine(<<"H", "3">>, 0), 1, 20),
     FullLine(<<"H", "4">>, 0) \o <<<<"x">>>>,
     <<Empty>>}

FileInputs == UNION {[1..n -> LineInputs] : n \in 0..MaxRows}

(***************************************************************************)
(* parseCSV(csvContent): the text is tokenized, then complete is called    *)
(***************************************************************************)
ParseCSVText ==
    /\ call = Idle
    /\ \E headers \in HeaderInputs, lines \in FileInputs, tokenizer \in Tokenizers,
          eng \in Engines :
        /\ call' = [op |-> "parseCSV", done |-> "complete", headers |-> headers,
                    lines |-> lines, tokenizer |-> tokenizer,
                    results |-> papaParse(headers, lines, tokenizer)]
        /\ engine' = eng
        /\ ret' = parseCSVComplete(papaParse(headers, lines, tokenizer), eng)
    /\ UNCHANGED <<service, context>>

NextText == ParseCSVText

SpecText == Init /\ [][NextText]_vars

(***************************************************************************)
(* Properties of parseCSV from the text (SpecText)                         *)
(***************************************************************************)
\* the lines of the call that the tokenizer keeps
KeptLines == SelectSeq(call.lines, LAMBDA cells : cells # <<Empty>>)

\* the column of the device header each numeric field belongs to: the 18
\* numeric columns follow the five columns of the user record, in the order of
\* NumericFields
OwnColumn(n) == n + 5

\* C13: the header transform gives distinct canonical names to the columns of
\* different subsystems that share a raw header text: under a header with
\* "Total kWh" twice the first such column is read into inverterSupply.totalKWh
\* and the second into pv.totalKWh, the repeated "Voltage" and "Current"
\* columns into the PV, battery, inverter and grid fields, so that every
\* numeric field of a record holds the cell of its own column.
C13_EachFieldReadsItsOwnColumn ==
    (Complete /\ "headers" \in DOMAIN call /\ call.headers \in {DeviceHeader, PaddedHeader}) =>
        \A i \in 1..Len(KeptLines) :
            (Len(KeptLines[i]) >= 24 /\ i \in AcceptedIndices) =>
                \A n \in 1..Len(NumericFields) :
                    ret.data[PositionOf(i)][NumericFields[n].group][NumericFields[n].prop]
                        = StringToNumber(KeptLines[i][OwnColumn(n)])

(***************************************************************************)
(* transformations.ts: aggregateData.                                      *)
(*                                                                         *)
(* A record's datetime is here the text toISOString wrote, in UTC and      *)
(* ending in "Z"; timezone is the offset of the zone of the environment,   *)
(* in minutes east of UTC, which the getters of Date add to the instant.   *)
(* The numbers a record carries are integers; the numbers of the result    *)
(* are fractions in lowest terms.                                          *)
(***************************************************************************)

MaxRecords == 3

Pad4(n) ==
    IF n < 10 THEN <<"0", "0", "0">> \o NatToDigits(n)
    ELSE IF n < 100 THEN <<"0", "0">> \o NatToDigits(n)
    ELSE IF n < 1000 THEN <<"0">> \o NatToDigits(n)
    ELSE NatToDigits(n)

\* the text toISOString writes for the minute mi of hour h of day y-mo-d, UTC
isoText(y, mo, d, h, mi) ==
    Pad4(y) \o <<"-">> \o Pad2(mo) \o <<"-">> \o Pad2(d) \o <<"T">> \o Pad2(h) \o <<":">>
            \o Pad2(mi) \o <<":", "0", "0", ".", "0", "0", "0", "Z">>

\* new Date(datetime): the fields of the instant, in UTC
utcFields(datetime) ==
    [year    |-> DigitsToNat(Sub(datetime, 1, 4), 10),
     month   |-> DigitsToNat(Sub(datetime, 6, 7), 10),
     day     |-> DigitsToNat(Sub(datetime, 9, 10), 10),
     hours   |-> DigitsToNat(Sub(datetime, 12, 13), 10),
     minutes |-> DigitsToNat(Sub(datetime, 15, 16), 10)]

\* minute t of the day y-mo-d
atMinute(y, mo, d, t) ==
    [year |-> y, month |-> mo, day |-> d, hours |-> t \div 60, minutes |-> t % 60]

\* minute t of the day before y-mo-d
dayBefore(y, mo, d, t) ==
    IF d > 1 THEN atMinute(y, mo, d - 1, t)
    ELSE IF mo > 1 THEN atMinute(y, mo - 1, DaysInMonth(y, mo - 1), t)
    ELSE atMinute(y - 1, 12, 31, t)

\* minute t of the day after y-mo-d
dayAfter(y, mo, d, t) ==
    IF d < DaysInMonth(y, mo) THEN atMinute(y, mo, d + 1, t)
    ELSE IF mo < 12 THEN atMinute(y, mo + 1, 1, t)
    ELSE atMinute(y + 1, 1, 1, t)

\* the minute of the day of the UTC fields f, counted in the zone
zoneMinute(f, timezone) == f.hours * 60 + f.minutes + timezone

\* the fields f of an instant in UTC, moved to the zone
zoneFields(f, t) ==
    IF t < 0 THEN dayBefore(f.year, f.month, f.day, t + 1440)
    ELSE IF t >= 1440 THEN dayAfter(f.year, f.month, f.day, t - 1440)
    ELSE atMinute(f.year, f.month, f.day, t)

\* getFullYear(), getMonth() + 1, getDate(), getHours(), getMinutes() of
\* new Date(datetime): the fields of the instant in the zone of the environment
localFields(datetime, timezone) ==
    zoneFields(utcFields(datetime), zoneMinute(utcFields(datetime), timezone))

\* `${date.getFullYear()}-${String(date.getMonth() + 1).padStart(2, '0')}`:
\* the year is written as the number it is
yearMonth(f) == NatToDigits(f.year) \o <<"-">> \o Pad2(f.month)

\* the switch of groupByTimeInterval: the key of the fields f
intervalKey(f, interval) ==
    IF interval = "minute"
    THEN yearMonth(f) \o <<"-">> \o Pad2(f.day) \o <<" ">> \o Pad2(f.hours)
                      \o <<":">> \o Pad2(f.minutes)
    ELSE IF interval = "hour"
    THEN yearMonth(f) \o <<"-">> \o Pad2(f.day) \o <<" ">> \o Pad2(f.hours)
                      \o <<":", "0", "0">>
    ELSE IF interval = "day"
    THEN yearMonth(f) \o <<"-">> \o Pad2(f.day)
    ELSE IF interval = "month"
    THEN yearMonth(f)
    ELSE Undefined   \* let key: string is never assigned

\* pushToGroup putting a new group before the others
pushToGroupInFront(groups, key, record) ==
    IF \E g \in 1..Len(groups) : groups[g].key = key
    THEN [g \in 1..Len(groups) |->
              IF groups[g].key = key
              THEN [key |-> key, records |-> Append(groups[g].records, record)]
              ELSE groups[g]]
    ELSE <<[key |-> key, records |-> <<record>>]>> \o groups

\* groups[key].push(record), with if (!groups[key]) groups[key] = [] before it.
\* groups is kept as the entries of the object, in the order of their creation.
pushToGroup(groups, key, record) ==
    IF \E g \in 1..Len(groups) : groups[g].key = key
    THEN [g \in 1..Len(groups) |->
              IF groups[g].key = key
              THEN [key |-> key, records |-> Append(groups[g].records, record)]
              ELSE groups[g]]
    ELSE Append(groups, [key |-> key, records |-> <<record>>])

RECURSIVE groupKeepingUndated(_, _, _)
\* groupByTimeInterval without the return on a missing datetime
groupKeepingUndated(records, interval, timezone) ==
    IF records = <<>> THEN <<>>
    ELSE pushToGroup(groupKeepingUndated(Sub(records, 1, Len(records) - 1), interval, timezone),
                     IF records[Len(records)].userRecord.timestamp.datetime \in {Undefined, Empty}
                     THEN Undefined
                     ELSE intervalKey(localFields(
                              records[Len(records)].userRecord.timestamp.datetime,
                              timezone), interval),
                     records[Len(records)])

RECURSIVE groupByTimeInterval(_, _, _)
\* groupByTimeInterval: records.forEach, from the first record to the last
groupByTimeInterval(records, interval, timezone) ==
    IF records = <<>> THEN <<>>
    ELSE IF records[Len(records)].userRecord.timestamp.datetime \in {Undefined, Empty}
    THEN groupByTimeInterval(Sub(records, 1, Len(records) - 1), interval, timezone)
    ELSE pushToGroup(groupByTimeInterval(Sub(records, 1, Len(records) - 1), interval, timezone),
                     intervalKey(localFields(
                         records[Len(records)].userRecord.timestamp.datetime,
                         timezone), interval),
                     records[Len(records)])

\* the own keys of the object at the path prefix of an InverterRecord
ObjectKeys(prefix) ==
    IF prefix = <<>>
    THEN {"userRecord", "inverterSupply", "pv", "battery", "inverter", "grid", "status"}
    ELSE IF prefix = <<"userRecord">> THEN {"id", "name", "timestamp", "blackout"}
    ELSE IF prefix = <<"userRecord", "timestamp">> THEN {"date", "time", "datetime"}
    ELSE IF prefix = <<"inverterSupply">> THEN {"totalKWh"}
    ELSE IF prefix = <<"pv">>
    THEN {"voltage", "current", "powerW", "dailyWh", "monthlyWd", "yearlyWm", "totalKWh"}
    ELSE IF prefix = <<"battery">> THEN {"voltage", "current", "temperature", "soc"}
    ELSE IF prefix = <<"inverter">> THEN {"voltage", "current", "frequency"}
    ELSE IF prefix = <<"grid">> THEN {"voltage", "current", "frequency"}
    ELSE IF prefix = <<"status">> THEN {"hex"}
    ELSE {}

\* typeof value === 'number' of the value at the path prefix
IsNumberAt(prefix) ==
    /\ Len(prefix) = 2
    /\ prefix[1] \in {"inverterSupply", "pv", "battery", "inverter", "grid"}
    /\ prefix[2] \in ObjectKeys(<<prefix[1]>>)

\* the else branch of the walk: the common field mappings, or return 0
fallback(record, fieldPath) ==
    IF fieldPath = <<"powerW">> THEN [value |-> record.pv.powerW, number |-> TRUE]
    ELSE IF fieldPath = <<"voltage">> THEN [value |-> record.battery.voltage, number |-> TRUE]
    ELSE IF fieldPath = <<"soc">> THEN [value |-> record.battery.soc, number |-> TRUE]
    ELSE [value |-> 0, number |-> TRUE]

\* the walk ending at the first part of the path
walkFirstPartOnly(value, prefix, parts, record) ==
    IF parts = <<>> THEN [value |-> value, number |-> IsNumberAt(prefix)]
    ELSE IF Head(parts) \in ObjectKeys(prefix)
    THEN [value |-> value[Head(parts)], number |-> IsNumberAt(Append(prefix, Head(parts)))]
    ELSE fallback(record, prefix \o parts)

RECURSIVE walk(_, _, _, _)
\* for (const part of parts): value is at the path prefix of record, parts are left
walk(value, prefix, parts, record) ==
    IF parts = <<>> THEN [value |-> value, number |-> IsNumberAt(prefix)]
    ELSE IF Head(parts) \in ObjectKeys(prefix)
    THEN walk(value[Head(parts)], Append(prefix, Head(parts)), Tail(parts), record)
    ELSE fallback(record, prefix \o parts)

\* typeof value === 'number' ? value : 0
numberOrZero(walked) == IF walked.number THEN walked.value ELSE 0

\* the callback of records.map: fieldPath is the sequence fieldPath.split('.') gives
extractField(record, fieldPath) == numberOrZero(walk(record, <<>>, fieldPath, record))

\* extractFieldValues: no value of an integer is NaN, the filter keeps them all
extractFieldValues(records, fieldPath) ==
    [i \in 1..Len(records) |-> extractField(records[i], fieldPath)]

RECURSIVE Gcd(_, _)
Gcd(a, b) == IF b = 0 THEN a ELSE Gcd(b, a % b)

Abs(n) == IF n < 0 THEN 0 - n ELSE n

\* the number n among the results, which are fractions in lowest terms
Number(n) == [num |-> n, den |-> 1]

\* a / b of JavaScript for integers a and b > 0, as the fraction in lowest
\* terms (the rounding of the quotient to a double is left out)
Divide(a, b) == [num |-> a \div Gcd(Abs(a), b), den |-> b \div Gcd(Abs(a), b)]

RECURSIVE Sum(_)
\* values.reduce((sum, val) => sum + val, 0)
Sum(values) == IF values = <<>> THEN 0 ELSE Sum(Sub(values, 1, Len(values) - 1)) + values[Len(values)]

\* Math.min(...values) of a non-empty list
Min(values) == CHOOSE v \in {values[i] : i \in 1..Len(values)} :
                   \A i \in 1..Len(values) : v <= values[i]

\* Math.max(...values) of a non-empty list
Max(values) == CHOOSE v \in {values[i] : i \in 1..Len(values)} :
                   \A i \in 1..Len(values) : v >= values[i]

\* calculateAggregation dividing the sum by the length less one
calculateAggregationSampleMean(values, method) ==
    IF values = <<>> THEN Number(0)
    ELSE IF method = "sum" THEN Number(Sum(values))
    ELSE IF method = "average"
    THEN (IF Len(values) = 1 THEN Number(Sum(values))
          ELSE Divide(Sum(values), Len(values) - 1))
    ELSE IF method = "min" THEN Number(Min(values))
    ELSE IF method = "max" THEN Number(Max(values))
    ELSE Number(0)

calculateAggregation(values, method) ==
    IF values = <<>> THEN Number(0)
    ELSE IF method = "sum" THEN Number(Sum(values))
    ELSE IF method = "average" THEN Divide(Sum(values), Len(values))
    ELSE IF method = "min" THEN Number(Min(values))
    ELSE IF method = "max" THEN Number(Max(values))
    ELSE Number(0)

RECURSIVE JoinDots(_)
\* the text fieldPath.split('.') gave the parts of
JoinDots(parts) ==
    IF parts = <<>> THEN ""
    ELSE IF Len(parts) = 1 THEN parts[1]
    ELSE parts[1] \o "." \o JoinDots(Tail(parts))

\* options.fields as left out of the options
NoFields == <<"undefined">>

\* options.fields || ['powerW', 'voltage', 'soc', 'voltage', 'voltage']
fieldsToAggregate(options) ==
    IF options.fields = NoFields
    THEN << <<"powerW">>, <<"voltage">>, <<"soc">>, <<"voltage">>, <<"voltage">> >>
    ELSE options.fields

\* values[field] = calculateAggregation(extractFieldValues(groupRecords, field), method)
\* for each field of fields in turn: the value of a key is that of its last field
aggregateValues(groupRecords, fields, method) ==
    [k \in {JoinDots(fields[i]) : i \in 1..Len(fields)} |->
        calculateAggregation(
            extractFieldValues(groupRecords,
                fields[CHOOSE i \in 1..Len(fields) :
                           /\ JoinDots(fields[i]) = k
                           /\ \A j \in 1..Len(fields) : JoinDots(fields[j]) = k => j <= i]),
            method)]

\* Object.entries(groups).map(...) of aggregateData
aggregateGroups(groups, options) ==
    [g \in 1..Len(groups) |->
        [period |-> groups[g].key,
         values |-> aggregateValues(groups[g].records, fieldsToAggregate(options),
                                    options.method),
         count  |-> Len(groups[g].records)]]

aggregateData(records, options, timezone) ==
    IF records = <<>> THEN <<>>
    ELSE aggregateGroups(groupByTimeInterval(records, options.interval, timezone), options)

(***************************************************************************)
(* The explored inputs of aggregateData.                                   *)
(***************************************************************************)

\* an InverterRecord of the instant datetime whose numbers all differ, and
\* grow with n
Reading(datetime, n) ==
    [userRecord     |-> [id |-> <<"A">>, name |-> <<"B">>,
                         timestamp |-> [date |-> Sub(datetime, 1, 10),
                                        time |-> Sub(datetime, 12, 16),
                                        datetime |-> datetime],
                         blackout |-> "false"],
     inverterSupply |-> [totalKWh |-> 900 + n],
     pv             |-> [voltage |-> 300 + n, current |-> 10 + n, powerW |-> 1000 + 7 * n,
                         dailyWh |-> 2000 + n, monthlyWd |-> 3000 + n,
                         yearlyWm |-> 4000 + n, totalKWh |-> 5000 + n],
     battery        |-> [voltage |-> 48 + n, current |-> 0 - n, temperature |-> 20 + n,
                         soc |-> 50 + 2 * n],
     inverter       |-> [voltage |-> 220 + n, current |-> 5 + n, frequency |-> 60],
     grid           |-> [voltage |-> 230 + n, current |-> 7 + n, frequency |-> 50],
     status         |-> [hex |-> <<"0", "x", "1">>]]

\* a record parseRow gave no datetime
Undated(n) ==
    [Reading(isoText(2025, 9, 28, 21, 5), n) EXCEPT
        !.userRecord.timestamp.datetime = Undefined]

Readings ==
    {Reading(isoText(2025, 9, 28, 21, 5), 0),
     Reading(isoText(2025, 9, 28, 21, 45), 1),
     Reading(isoText(2025, 9, 30, 20, 0), 4),
     Reading(isoText(999, 12, 31, 23, 30), 2),
     Undated(5)}

RecordInputs == UNION {[1..n -> Readings] : n \in 0..MaxRecords}

Intervals == {"minute", "hour", "day", "month"}

Methods == {"sum", "average", "min", "max"}

FieldInputs ==
    {NoFields,
     << <<"pv", "powerW">>, <<"battery", "soc">> >>,
     << <<"grid", "voltage">>, <<"battery", "current">>, <<"userRecord", "id">>,
        <<"battery", "charge">> >>}

OptionInputs == [interval : Intervals, method : Methods, fields : FieldInputs]

\* the offsets of the zones explored: New York in winter, India
Timezones == {-300, 330}

AggregateData ==
    /\ call = Idle
    /\ \E records \in RecordInputs, options \in OptionInputs, timezone \in Timezones :
          /\ call' = [op |-> "aggregateData", records |-> records, options |-> options,
                      timezone |-> timezone]
          /\ ret' = aggregateData(records, options, timezone)
    /\ UNCHANGED <<engine, service, context>>

NextAggregate == AggregateData

SpecAggregate == Init /\ [][NextAggregate]_vars

(***************************************************************************)
(* Properties of aggregateData (SpecAggregate).                            *)
(***************************************************************************)

Aggregated == call.op = "aggregateData"

Dated(record) == record.userRecord.timestamp.datetime \notin {Undefined, Empty}

\* the positions of the input records that have a datetime
DatedIndices == {i \in 1..Len(call.records) : Dated(call.records[i])}

\* the days from 0001-01-01 to the first day of the year y
DaysBeforeYear(y) == 365 * (y - 1) + (y - 1) \div 4 - (y - 1) \div 100 + (y - 1) \div 400

\* the days from the first day of the year y to the first day of its month mo
DaysBeforeMonth(y, mo) ==
    <<0, 31, 59, 90, 120, 151, 181, 212, 243, 273, 304, 334>>[mo]
        + (IF mo > 2 /\ IsLeapYear(y) THEN 1 ELSE 0)

\* the minutes from 0001-01-01 00:00 to the instant of the UTC fields f,
\* counted on the clock of the zone
ZoneMinutes(f, timezone) ==
    (DaysBeforeYear(f.year) + DaysBeforeMonth(f.year, f.month) + f.day - 1) * 1440
        + f.hours * 60 + f.minutes + timezone

\* the year of the day that is days after 0001-01-01, a year next to u
YearOf(days, u) ==
    CHOOSE y \in {u - 1, u, u + 1} : DaysBeforeYear(y) <= days /\ days < DaysBeforeYear(y + 1)

\* the month of the day of the year y that is days after 0001-01-01
MonthOf(days, y) ==
    CHOOSE mo \in 1..12 :
        /\ DaysBeforeYear(y) + DaysBeforeMonth(y, mo) <= days
        /\ mo < 12 => days < DaysBeforeYear(y) + DaysBeforeMonth(y, mo + 1)

ComponentsInMonth(minutes, days, y, mo) ==
    [year |-> y, month |-> mo,
     day |-> days - DaysBeforeYear(y) - DaysBeforeMonth(y, mo) + 1,
     hours |-> (minutes % 1440) \div 60,
     minutes |-> minutes % 60]

ComponentsInYear(minutes, days, y) == ComponentsInMonth(minutes, days, y, MonthOf(days, y))

ComponentsAt(minutes, u) ==
    ComponentsInYear(minutes, minutes \div 1440, YearOf(minutes \div 1440, u))

\* the year, month, day, hour and minute of the instant of record i in the zone
Components(i) ==
    ComponentsAt(ZoneMinutes(utcFields(call.records[i].userRecord.timestamp.datetime),
                             call.timezone),
                 utcFields(call.records[i].userRecord.timestamp.datetime).year)

\* the instants of the components a and b agree on every component down to interval
Agree(a, b, interval) ==
    /\ a.year = b.year
    /\ a.month = b.month
    /\ interval \in {"day", "hour", "minute"} => a.day = b.day
    /\ interval \in {"hour", "minute"} => a.hours = b.hours
    /\ interval = "minute" => a.minutes = b.minutes

\* YYYY-MM, YYYY-MM-DD, YYYY-MM-DD HH:00 or YYYY-MM-DD HH:MM of the components
\* c, each component padded with zeros to its width
PaddedKey(c, interval) ==
    Pad4(c.year) \o <<"-">> \o Pad2(c.month)
        \o (IF interval = "month" THEN <<>>
            ELSE <<"-">> \o Pad2(c.day)
                \o (IF interval = "day" THEN <<>>
                    ELSE <<" ">> \o Pad2(c.hours) \o <<":">>
                        \o (IF interval = "hour" THEN <<"0", "0">>
                            ELSE Pad2(c.minutes))))

\* the groups the call made of its records
Groups == groupByTimeInterval(call.records, call.options.interval, call.timezone)

\* the groups of groups that hold the record
GroupsOf(groups, record) ==
    {g \in 1..Len(groups) :
        \E k \in 1..Len(groups[g].records) : groups[g].records[k] = record}

\* the components of the records that have a datetime, by position
ComponentsOfDated == [i \in DatedIndices |-> Components(i)]

\* the groups of the records that have a datetime, by position
GroupsOfDated == [i \in DatedIndices |-> GroupsOf(Groups, call.records[i])]

\* records are together in a group of the groups of exactly when their
\* components at agree down to the interval
TogetherIffAgree(at, of, interval) ==
    \A i, j \in DOMAIN at : (of[i] \cap of[j] # {}) <=> Agree(at[i], at[j], interval)

\* the period of the bucket of each record is the padded key of its components
PeriodIsPaddedKey(at, of, interval, result) ==
    \A i \in DOMAIN at : \A g \in of[i] : result[g].period = PaddedKey(at[i], interval)

\* C18: two records that have a datetime are in the same bucket if and only if
\* their instants agree on every component down to the requested interval, and
\* the period of the bucket of a record is the zero-padded key (YYYY-MM,
\* YYYY-MM-DD, YYYY-MM-DD HH:00, YYYY-MM-DD HH:MM) of its truncated instant.
C18_BucketIsTruncatedInstantWithPaddedKey ==
    Aggregated =>
        \A at \in {ComponentsOfDated} : \A of \in {GroupsOfDated} :
            /\ TogetherIffAgree(at, of, call.options.interval)
            /\ PeriodIsPaddedKey(at, of, call.options.interval, ret)

\* the positions of the input records that are in the group g of groups
PositionsIn(groups, g) ==
    {i \in 1..Len(call.records) :
        \E k \in 1..Len(groups[g].records) : groups[g].records[k] = call.records[i]}

RECURSIVE SumOfCounts(_)
SumOfCounts(result) ==
    IF result = <<>> THEN 0
    ELSE SumOfCounts(Sub(result, 1, Len(result) - 1)) + result[Len(result)].count

\* C19: a record without a datetime is in no bucket, a record with a datetime
\* is in exactly one; the count of a bucket is the number of the records
\* grouped into it, and the counts sum to the number of the input records
\* that have a datetime.
C19_DatedRecordsInExactlyOneBucket ==
    Aggregated =>
        \A groups \in {Groups} :
            /\ Len(ret) = Len(groups)
            /\ \A i \in 1..Len(call.records) :
                   Cardinality(GroupsOf(groups, call.records[i]))
                       = IF Dated(call.records[i]) THEN 1 ELSE 0
            /\ \A g \in 1..Len(ret) :
                   ret[g].count = Cardinality(PositionsIn(groups, g))
            /\ SumOfCounts(ret) = Cardinality(DatedIndices)

\* a record without a datetime was left out, two others share a bucket
C19_Witness ==
    /\ Aggregated
    /\ Len(call.records) = 3
    /\ Cardinality(DatedIndices) = 2
    /\ Len(ret) = 1
    /\ ret[1].count = 2

\* a dotted path to a numeric field of the record
NumericPath(path) == Len(path) = 2 /\ IsNumberAt(path)

RECURSIVE TotalOver(_, _)
\* the total of the field at path over the records at the positions
TotalOver(positions, path) ==
    IF positions = {} THEN 0
    ELSE LET i == CHOOSE p \in positions : TRUE
         IN  call.records[i][path[1]][path[2]] + TotalOver(positions \ {i}, path)

\* the number v is the reduction, with the method, of the field at path over
\* the records at the positions, of which there is one at least
IsReduction(v, positions, path, method) ==
    IF method = "sum" THEN v.den = 1 /\ v.num = TotalOver(positions, path)
    ELSE IF method = "average"
    THEN v.num * Cardinality(positions) = TotalOver(positions, path) * v.den
    ELSE IF method = "min"
    THEN /\ v.den = 1
         /\ \E i \in positions : call.records[i][path[1]][path[2]] = v.num
         /\ \A i \in positions : call.records[i][path[1]][path[2]] >= v.num
    ELSE /\ v.den = 1
         /\ \E i \in positions : call.records[i][path[1]][path[2]] = v.num
         /\ \A i \in positions : call.records[i][path[1]][path[2]] <= v.num

\* the paths the call asked for that are dotted paths to a numeric field
RequestedNumericPaths ==
    IF call.options.fields = NoFields THEN {}
    ELSE {call.options.fields[n] : n \in {m \in 1..Len(call.options.fields) :
                                              NumericPath(call.options.fields[m])}}

\* C20: for every bucket and every requested dotted path to a numeric field,
\* values[path] is the reduction of that field over exactly the records of the
\* bucket: the total for sum, the total divided by the number of the records
\* for average, the least value for min and the greatest for max.
C20_ValuesAreReductionsOverTheBucket ==
    Aggregated =>
        \A groups \in {Groups} : \A g \in 1..Len(ret) : \A path \in RequestedNumericPaths :
            /\ JoinDots(path) \in DOMAIN ret[g].values
            /\ IsReduction(ret[g].values[JoinDots(path)], PositionsIn(groups, g), path,
                           call.options.method)

\* the averages over a bucket of two records of three: a whole one and a half
C20_Witness ==
    /\ Aggregated
    /\ call.options.method = "average"
    /\ call.options.fields # NoFields
    /\ Len(call.records) = 3
    /\ Len(ret) = 2
    /\ ret[1].count = 2
    /\ "battery.soc" \in DOMAIN ret[1].values
    /\ ret[1].values["battery.soc"] = [num |-> 51, den |-> 1]
    /\ ret[1].values["pv.powerW"] = [num |-> 2007, den |-> 2]

\* the call aggregated a list of one record with the method sum or average
SingleRecord ==
    /\ Aggregated
    /\ Len(call.records) = 1
    /\ call.options.method \in {"sum", "average"}

\* the result is one bucket of count 1 whose value for each requested dotted
\* path to a numeric field is the value the record holds there
OneBucketOfRawValues ==
    /\ Len(ret) = 1
    /\ ret[1].count = 1
    /\ \A path \in RequestedNumericPaths :
           /\ JoinDots(path) \in DOMAIN ret[1].values
           /\ ret[1].values[JoinDots(path)] = Number(call.records[1][path[1]][path[2]])

\* C21 as stated: aggregating a list of a single record, over any interval and
\* with the method sum or average, returns exactly one bucket with count 1
\* whose value for each requested field is the raw value of the record.
C21_SingleRecordRoundTrip == SingleRecord => OneBucketOfRawValues

\* C21, amended: the same for a single record that has a datetime; a single
\* record without one gives no bucket at all.
C21_SingleDatedRecordRoundTrip ==
    SingleRecord =>
        IF Dated(call.records[1]) THEN OneBucketOfRawValues ELSE ret = <<>>

\* the average of one record of the year 2025 over the day
C21_Witness ==
    /\ SingleRecord
    /\ call.options.method = "average"
    /\ call.options.interval = "day"
    /\ Dated(call.records[1])
    /\ Len(ret) = 1
    /\ "battery.soc" \in DOMAIN ret[1].values
    /\ ret[1].values["battery.soc"] = [num |-> 58, den |-> 1]
    /\ ret[1].values["pv.powerW"] = [num |-> 1028, den |-> 1]

\* the fields of the five quantities of the default: PV power, battery
\* voltage, battery SOC, inverter voltage and grid voltage
DefaultQuantities ==
    {<<"pv", "powerW">>, <<"battery", "voltage">>, <<"battery", "soc">>,
     <<"inverter", "voltage">>, <<"grid", "voltage">>}

\* C22: when options.fields is omitted, the values of each bucket hold five
\* separately reduced quantities (PV power, battery voltage, battery SOC,
\* inverter voltage, grid voltage), each reduced from its own field of the
\* records of the bucket.
C22_DefaultFieldsAreFiveQuantities ==
    (Aggregated /\ call.options.fields = NoFields) =>
        \A groups \in {Groups} : \A g \in 1..Len(ret) :
            /\ Cardinality(DOMAIN ret[g].values) = Cardinality(DefaultQuantities)
            /\ \A path \in DefaultQuantities : \E k \in DOMAIN ret[g].values :
                   IsReduction(ret[g].values[k], PositionsIn(groups, g), path,
                               call.options.method)

\* the period of the record at position i: the key the call gave its instant
PeriodAt(i) ==
    intervalKey(localFields(call.records[i].userRecord.timestamp.datetime, call.timezone),
                call.options.interval)

\* the periods of the records that have a datetime, by position
PeriodsOfDated == [i \in DatedIndices |-> PeriodAt(i)]

\* the first position of periods that holds the period
FirstWith(periods, period) ==
    CHOOSE i \in DOMAIN periods :
        /\ periods[i] = period
        /\ \A j \in DOMAIN periods : periods[j] = period => i <= j

\* C26: the periods of the output are pairwise distinct, every bucket has a
\* count of 1 at least, the buckets are in the order in which their periods
\* first appear among the input records, and the output is empty when the
\* input is empty or no record has a datetime.
C26_DistinctPeriodsInOrderOfFirstAppearance ==
    Aggregated =>
        \A periods \in {PeriodsOfDated} :
            /\ \A g, h \in 1..Len(ret) : g # h => ret[g].period # ret[h].period
            /\ \A g \in 1..Len(ret) :
                   /\ ret[g].count >= 1
                   /\ \E i \in DOMAIN periods : periods[i] = ret[g].period
            /\ \A g, h \in 1..Len(ret) :
                   g < h => FirstWith(periods, ret[g].period) < FirstWith(periods, ret[h].period)
            /\ \A i \in DOMAIN periods : \E g \in 1..Len(ret) : ret[g].period = periods[i]
            /\ (call.records = <<>> \/ DatedIndices = {}) => ret = <<>>

\* the period of the first record comes back after another one
C26_Witness ==
    /\ Aggregated
    /\ Len(call.records) = 3
    /\ DatedIndices = {1, 2, 3}
    /\ PeriodAt(1) = PeriodAt(3)
    /\ PeriodAt(1) # PeriodAt(2)
    /\ Len(ret) = 2
    /\ ret[1].count = 2
    /\ ret[1].period = PeriodAt(1)

(***************************************************************************)
(* Further properties of parseCSV (SpecParse).                             *)
(***************************************************************************)

\* C24: for every row whose Date and Time cells both pass validation (a time
\* with a one-digit hour such as 9:05 passes), the record has its
\* timestamp.datetime and no error of field 'datetime' is reported for the row.
C24_ValidDateAndTimeGiveDatetime ==
    Complete =>
        \A i \in 1..Len(Rows) :
            (~Fails(i, "Date") /\ ~Fails(i, "Time")) =>
                /\ i \in AcceptedIndices
                /\ ret.data[PositionOf(i)].userRecord.timestamp.datetime # Undefined
                /\ ErrorsFor(i, "datetime") = <<>>

\* the value the record of the accepted row i stores for the numeric field f
StoredValue(i, f) == ret.data[PositionOf(i)][f.group][f.prop]

\* the number v lies in [min, max]
InRange(v, min, max) == ~isNaN(v) /\ ~Lt(v, min) /\ ~Gt(v, max)

\* the cell reads as "no reading": absent, empty or "-"
NoReading(cell) == cell \in {Undefined, Empty, <<"-">>}

\* C25 as stated: for every record and each of its numeric fields, if no error
\* was reported for the field in the row, the stored value lies within the
\* range of the validator of the field.
C25_StoredValuesWithinRange ==
    Complete =>
        \A i \in AcceptedIndices, n \in 1..Len(NumericFields) :
            ErrorsFor(i, NumericFields[n].name) = <<>> =>
                InRange(StoredValue(i, NumericFields[n]),
                        NumericFields[n].min, NumericFields[n].max)

\* C25, amended: if no error was reported for the field in the row, then the
\* stored value lies within the range of the validator, or the cell holds no
\* reading (it is absent, empty or "-") and the stored value is 0, which for
\* the two frequencies lies outside [45, 65].
C25_StoredValuesWithinRangeOrNoReading ==
    Complete =>
        \A i \in AcceptedIndices, n \in 1..Len(NumericFields) :
            ErrorsFor(i, NumericFields[n].name) = <<>> =>
                IF NoReading(CellOf(Rows[i], NumericFields[n]))
                THEN StoredValue(i, NumericFields[n]) = Zero
                ELSE InRange(StoredValue(i, NumericFields[n]),
                             NumericFields[n].min, NumericFields[n].max)

\* the inverter frequency has no reading and is stored as 0 without an error,
\* the grid frequency of the same row is read and within its range
C25_Witness ==
    /\ Complete
    /\ Len(Rows) = 1
    /\ Len(ret.data) = 1
    /\ Rows[1]["Hz"] = Empty
    /\ ret.data[1].inverter.frequency = Zero
    /\ ErrorsFor(1, "Inverter_Frequency") = <<>>
    /\ Present(Rows[1]["Hz_1"])
    /\ ErrorsFor(1, "Grid_Frequency") = <<>>
    /\ InRange(ret.data[1].grid.frequency, 45, 65)

(***************************************************************************)
(* parser.ts: formatParseErrors.                                           *)
(*                                                                         *)
(* The message is kept as the sequence of its lines, each line as the      *)
(* template it is written from and the values put into it; every line but  *)
(* 'No errors' ends with "\n".                                             *)
(***************************************************************************)

MaxErrors == 7

\* the examples of a type: typeErrors.slice(0, 5)
ExampleLimit == 5

\* type.toUpperCase() of the types of ParseError
TypeToUpperCase(type) ==
    CASE type = "missing" -> "MISSING"
      [] type = "format" -> "FORMAT"
      [] type = "conversion" -> "CONVERSION"
      [] type = "validation" -> "VALIDATION"

RECURSIVE errorsByType(_)
\* errors.reduce(...): the entries of errorsByType, in the order of their creation
errorsByType(errors) ==
    IF errors = <<>> THEN <<>>
    ELSE pushToGroup(errorsByType(Sub(errors, 1, Len(errors) - 1)),
                     errors[Len(errors)].type, errors[Len(errors)])

FoundLine(count) == [text |-> "Found $count error(s):", count |-> count]

BlankLine == [text |-> ""]

TypeLine(type, count) ==
    [text |-> "$type errors ($count):", type |-> TypeToUpperCase(type), count |-> count]

ExampleLine(error) ==
    [text |-> "  Row $row, $field: $message", row |-> error.row, field |-> error.field,
     message |-> error.message]

MoreLine(count) == [text |-> "  ... and $count more", count |-> count]

\* the lines of a type, with the suffix written from the fifth error on
typeLinesMoreFromLimit(type, typeErrors) ==
    <<BlankLine, TypeLine(type, Len(typeErrors))>>
        \o [i \in 1..(IF Len(typeErrors) < ExampleLimit THEN Len(typeErrors)
                      ELSE ExampleLimit) |-> ExampleLine(typeErrors[i])]
        \o (IF Len(typeErrors) >= ExampleLimit
            THEN <<MoreLine(Len(typeErrors) - ExampleLimit)>> ELSE <<>>)

\* the callback of Object.entries(errorsByType).forEach
typeLines(type, typeErrors) ==
    <<BlankLine, TypeLine(type, Len(typeErrors))>>
        \o [i \in 1..(IF Len(typeErrors) < ExampleLimit THEN Len(typeErrors)
                      ELSE ExampleLimit) |-> ExampleLine(typeErrors[i])]
        \o (IF Len(typeErrors) > ExampleLimit
            THEN <<MoreLine(Len(typeErrors) - ExampleLimit)>> ELSE <<>>)

RECURSIVE allTypeLines(_)
allTypeLines(groups) ==
    IF groups = <<>> THEN <<>>
    ELSE allTypeLines(Sub(groups, 1, Len(groups) - 1))
             \o typeLines(groups[Len(groups)].key, groups[Len(groups)].records)

formatParseErrors(errors) ==
    IF errors = <<>> THEN <<[text |-> "No errors"]>>
    ELSE <<FoundLine(Len(errors))>> \o allTypeLines(errorsByType(errors))

\* the errors the lists are made of: two of a type, one of another
ErrorSamples ==
    {ParseError(2, "Time", <<"9", "h">>, "Time must be in HH:MM format", <<>>, "format"),
     ParseError(3, "Status_Hex", <<"z">>, "Hex value must be in format 0x00", <<>>, "format"),
     ParseError(3, "Date", Empty, "Date is required", <<>>, "missing")}

ErrorListInputs == UNION {[1..n -> ErrorSamples] : n \in 0..MaxErrors}

FormatParseErrors ==
    /\ call = Idle
    /\ \E errors \in ErrorListInputs :
          /\ call' = [op |-> "formatParseErrors", errors |-> errors]
          /\ ret' = formatParseErrors(errors)
    /\ UNCHANGED <<engine, service, context>>

NextFormat == FormatParseErrors

SpecFormat == Init /\ [][NextFormat]_vars

(***************************************************************************)
(* Properties of formatParseErrors (SpecFormat).                           *)
(***************************************************************************)

Formatted == call.op = "formatParseErrors"

\* the errors of the type among the errors formatted, in the order of the input
OfType(type) == SelectSeq(call.errors, LAMBDA e : e.type = type)

\* the types of the errors formatted
TypesFormatted == {call.errors[i].type : i \in 1..Len(call.errors)}

\* the lesser of n and the limit of the examples
UpToLimit(n) == IF n < ExampleLimit THEN n ELSE ExampleLimit

\* at line p of the lines stands the group of the type: its count n, the
\* first min(n, 5) errors of the type, and the suffix if and only if n > 5
GroupAt(lines, p, type, ofType) ==
    /\ p + UpToLimit(Len(ofType)) <= Len(lines)
    /\ lines[p].text = "$type errors ($count):"
    /\ lines[p].type = TypeToUpperCase(type)
    /\ lines[p].count = Len(ofType)
    /\ \A k \in 1..UpToLimit(Len(ofType)) :
           /\ lines[p + k].text = "  Row $row, $field: $message"
           /\ lines[p + k].row = ofType[k].row
           /\ lines[p + k].field = ofType[k].field
           /\ lines[p + k].message = ofType[k].message
    /\ IF Len(ofType) > ExampleLimit
       THEN /\ p + ExampleLimit + 1 <= Len(lines)
            /\ lines[p + ExampleLimit + 1].text = "  ... and $count more"
            /\ lines[p + ExampleLimit + 1].count = Len(ofType) - ExampleLimit
       ELSE \/ p + Len(ofType) = Len(lines)
            \/ lines[p + Len(ofType) + 1].text = ""

\* the positions of the lines that open the group of a type
TypeLinePositions(lines) == {p \in 1..Len(lines) : lines[p].text = "$type errors ($count):"}

RECURSIVE SumOfTypeCounts(_, _)
SumOfTypeCounts(lines, positions) ==
    IF positions = {} THEN 0
    ELSE LET p == CHOOSE q \in positions : TRUE
         IN  lines[p].count + SumOfTypeCounts(lines, positions \ {p})

\* C23: formatParseErrors returns exactly "No errors" for an empty list; for a
\* non-empty list it reports the total number of errors and, for each type
\* with n errors, the count n, the first min(n, 5) errors of the type in input
\* order as example lines (row, field: message), and an "and n-5 more" suffix
\* if and only if n > 5; the counts of the types sum to the total.
C23_FormatParseErrors ==
    Formatted =>
        IF call.errors = <<>> THEN ret = <<[text |-> "No errors"]>>
        ELSE /\ ret[1] = [text |-> "Found $count error(s):", count |-> Len(call.errors)]
             /\ Cardinality(TypeLinePositions(ret)) = Cardinality(TypesFormatted)
             /\ \A type \in TypesFormatted : \E p \in TypeLinePositions(ret) :
                    GroupAt(ret, p, type, OfType(type))
             /\ Cardinality({p \in 1..Len(ret) : ret[p].text = "  ... and $count more"})
                    = Cardinality({type \in TypesFormatted :
                                      Len(OfType(type)) > ExampleLimit})
             /\ SumOfTypeCounts(ret, TypeLinePositions(ret)) = Len(call.errors)

\* seven errors of one type: five examples, in the order of the input, and
\* the suffix "and 2 more"
C23_Witness ==
    /\ Formatted
    /\ Len(OfType("format")) = 7
    /\ call.errors[1] # call.errors[2]
    /\ Len(ret) = 9
    /\ ret[4].row = call.errors[1].row
    /\ ret[5].row = call.errors[2].row
    /\ ret[9] = [text |-> "  ... and $count more", count |-> 2]

(***************************************************************************)
(* services/websocket-service.ts: WebSocketService                         *)
(*                                                                         *)
(* A method is an operator from a run to a run: the service it has reached *)
(* and the events it has emitted to the registered listeners, in order.    *)
(* The methods are synchronous (connect and reconnect are declared async   *)
(* and await nothing before their last statement), so that one call, with  *)
(* every method it calls, is one step.                                     *)
(***************************************************************************)
\* most records the cache keeps; 1000 in the source (line 28), scaled so
\* that a full cache is reached
maxCacheSize == 2
\* most callbacks of setTimeout waiting at once, of the service and of the
\* provider each
MaxTimeouts == 1

\* the records generateRealtimeData returns
GeneratedRecords == {"r1", "r2"}

Run(s) == [service |-> s, emitted |-> <<>>]

emit(run, event, data) ==
    IF run.service.eventListeners
    THEN [run EXCEPT !.emitted = Append(@, [event |-> event, data |-> data])]
    ELSE run

startHeartbeat(run) == [run EXCEPT !.service.heartbeatTimer = "interval"]

stopHeartbeat(run) == [run EXCEPT !.service.heartbeatTimer = Null]

stopDataUpdates(run) == [run EXCEPT !.service.updateTimer = Null]

reconnect(run) ==
    IF run.service.status.retryCount >= run.service.config.maxRetries
    THEN LET failed == [run EXCEPT !.service.status.error =
                                        "Max reconnection attempts reached"]
         IN  emit(emit(failed, "connectionStateChange", failed.service.status),
                  "maxRetriesReached", Null)
    ELSE LET counted == [run EXCEPT !.service.status.retryCount = @ + 1]
             told == emit(counted, "reconnecting",
                          [attempt |-> counted.service.status.retryCount])
         IN  [told EXCEPT !.service.timeouts = @ + 1]

handleConnectionError(run, message) ==
    LET failed == [run EXCEPT !.service.status.connected = FALSE,
                              !.service.status.error = message]
        stopped == stopHeartbeat(stopDataUpdates(failed))
        told == emit(emit(stopped, "connectionStateChange", stopped.service.status),
                     "error", [message |-> message])
    IN  IF told.service.status.retryCount < told.service.config.maxRetries
        THEN reconnect(told)
        ELSE told

addToCache(dataCache, record) ==
    LET pushed == Append(dataCache, record)
    IN  IF Len(pushed) > maxCacheSize THEN Tail(pushed) ELSE pushed

\* generateRealtimeData returns newData, or throws
generateAndEmitData(run, newData) ==
    IF run.service.dataGenerator = "throws"
    THEN handleConnectionError(run, "generateRealtimeData failed")
    ELSE LET cached == [run EXCEPT !.service.dataCache = addToCache(@, newData),
                                   !.service.status.lastUpdate = "date"]
         IN  emit(emit(cached, "data", newData),
                  "connectionStateChange", cached.service.status)

startDataUpdates(run, newData) ==
    generateAndEmitData([run EXCEPT !.service.updateTimer = "interval"], newData)

connect(run, newData) ==
    IF run.service.status.connected
    THEN run
    ELSE LET opened == [run EXCEPT !.service.status.connected = TRUE,
                                   !.service.status.retryCount = 0,
                                   !.service.status.error = Null,
                                   !.service.status.lastUpdate = "date"]
             told == emit(emit(opened, "connectionStateChange", opened.service.status),
                          "connected", Null)
         IN  startHeartbeat(startDataUpdates(told, newData))

disconnect(run) ==
    IF ~run.service.status.connected
    THEN run
    ELSE LET closed == stopHeartbeat(stopDataUpdates(
                           [run EXCEPT !.service.status.connected = FALSE]))
         IN  emit(emit(closed, "connectionStateChange", closed.service.status),
                  "disconnected", Null)

sendHeartbeat(run) ==
    IF run.service.status.connected THEN emit(run, "heartbeat", "date") ELSE run

\* array.slice(start): from start, counted from the end if negative
slice(array, start) ==
    LET from == IF start < 0
                THEN (IF Len(array) + start > 0 THEN Len(array) + start ELSE 0)
                ELSE (IF start < Len(array) THEN start ELSE Len(array))
    IN  SubSeq(array, from + 1, Len(array))

\* limit is <<>> when the argument is left out, <<n>> when it is n
getCachedData(s, limit) ==
    IF limit # <<>> /\ limit[1] # 0
    THEN slice(s.dataCache, 0 - limit[1])
    ELSE s.dataCache

\* { ...config, ...newConfig }: newConfig holds some of the fields
merge(config, newConfig) ==
    [k \in DOMAIN config |-> IF k \in DOMAIN newConfig THEN newConfig[k] ELSE config[k]]

updateConfig(run, newConfig, newData) ==
    LET oldInterval == run.service.config.updateInterval
        merged == [run EXCEPT !.service.config = merge(@, newConfig)]
        restarted ==
            IF /\ "updateInterval" \in DOMAIN newConfig
               /\ newConfig.updateInterval # 0
               /\ newConfig.updateInterval # oldInterval
               /\ merged.service.status.connected
            THEN startDataUpdates(merged, newData)
            ELSE merged
    IN  emit(restarted, "configUpdated", restarted.service.config)

clearCache(run) == emit([run EXCEPT !.service.dataCache = <<>>], "cacheCleared", Null)

getLatestData(s) ==
    IF Len(s.dataCache) > 0 THEN s.dataCache[Len(s.dataCache)] ELSE Null

destroy(run) ==
    [disconnect(run) EXCEPT !.service.eventListeners = FALSE,
                            !.service.dataCache = <<>>]
(***************************************************************************)
(* app/layout.tsx: the listeners of RealtimeDataProvider                   *)
(***************************************************************************)
handleConnectionStateChange(ctx, status) ==
    [ctx EXCEPT !.isConnected = status.connected,
                !.connectionError = status.error,
                !.retryCount = status.retryCount,
                !.isConnecting = FALSE]

handleConnected(ctx) ==
    [ctx EXCEPT !.isConnected = TRUE, !.isConnecting = FALSE, !.connectionError = Null]

handleDisconnected(ctx) == [ctx EXCEPT !.isConnected = FALSE, !.isConnecting = FALSE]

handleReconnecting(ctx, data) ==
    [ctx EXCEPT !.isConnecting = TRUE, !.retryCount = data.attempt]

handleError(ctx, error) ==
    [ctx EXCEPT !.connectionError = error.message, !.isConnecting = FALSE]

handleMaxRetriesReached(ctx) ==
    [ctx EXCEPT !.isConnecting = FALSE,
                !.connectionError = "Maximum connection attempts reached"]

\* the listener registered for the event, called with its data
listener(ctx, e) ==
    CASE e.event = "connectionStateChange" -> handleConnectionStateChange(ctx, e.data)
      [] e.event = "connected" -> handleConnected(ctx)
      [] e.event = "disconnected" -> handleDisconnected(ctx)
      [] e.event = "reconnecting" -> handleReconnecting(ctx, e.data)
      [] e.event = "error" -> handleError(ctx, e.data)
      [] e.event = "maxRetriesReached" -> handleMaxRetriesReached(ctx)
      [] OTHER -> ctx

\* the listeners called for the events of a run, in the order emitted
RECURSIVE listeners(_, _)
listeners(ctx, emitted) ==
    IF emitted = <<>>
    THEN ctx
    ELSE listeners(listener(ctx, Head(emitted)), Tail(emitted))

\* the connect of the render whose state was closure
contextConnect(closure, s, ctx, newData) ==
    IF closure.isConnected \/ closure.isConnecting
    THEN [service |-> s, context |-> ctx]
    ELSE LET run == connect(Run(s), newData)
         IN  [service |-> run.service,
              context |-> listeners([ctx EXCEPT !.isConnecting = TRUE,
                                                !.connectionError = Null],
                                    run.emitted)]

\* the reconnect of the render whose state was closure: disconnect, then the
\* connect of the same render is handed to setTimeout
contextReconnect(closure, s, ctx) ==
    LET run == disconnect(Run(s))
    IN  [service |-> run.service,
         context |-> [listeners(ctx, run.emitted) EXCEPT
                          !.timeouts = Append(@, closure)]]

(***************************************************************************)
(* The calls and callbacks of the service.  call names the last one and    *)
(* ret.value is what it returned: the array of getCachedData, or the one   *)
(* value of getLatestData in a sequence of its own.                        *)
(***************************************************************************)
\* the service a run has reached, and the provider its listeners leave
Reach(run) ==
    /\ run.service.timeouts <= MaxTimeouts
    /\ service' = run.service
    /\ context' = listeners(context, run.emitted)
    /\ ret' = NoResult
    /\ UNCHANGED engine

Limits == {<<>>} \cup {<<n>> : n \in 0..(maxCacheSize + 1)}

ConfigInputs ==
    {[updateInterval |-> 1000], [updateInterval |-> 5000], [updateInterval |-> 0],
     [maxRetries |-> 1], [maxRetries |-> 0]}

Connect ==
    /\ call' = [op |-> "connect"]
    /\ \E newData \in GeneratedRecords : Reach(connect(Run(service), newData))

Disconnect ==
    /\ call' = [op |-> "disconnect"]
    /\ Reach(disconnect(Run(service)))

UpdateConfig ==
    \E newConfig \in ConfigInputs, newData \in GeneratedRecords :
        /\ call' = [op |-> "updateConfig", newConfig |-> newConfig]
        /\ Reach(updateConfig(Run(service), newConfig, newData))

\* the callback of setInterval in startDataUpdates
UpdateTimer ==
    /\ service.updateTimer # Null
    /\ call' = [op |-> "updateTimer"]
    /\ \E newData \in GeneratedRecords : Reach(generateAndEmitData(Run(service), newData))

\* the callback of setInterval in startHeartbeat
HeartbeatTimer ==
    /\ service.heartbeatTimer # Null
    /\ call' = [op |-> "heartbeatTimer"]
    /\ Reach(sendHeartbeat(Run(service)))

\* the callback of setTimeout in reconnect
ReconnectTimeout ==
    /\ service.timeouts > 0
    /\ call' = [op |-> "reconnectTimeout"]
    /\ \E newData \in GeneratedRecords :
          Reach(connect(Run([service EXCEPT !.timeouts = @ - 1]), newData))

\* generateRealtimeData begins to throw, and stops throwing
GeneratorThrows ==
    /\ service.dataGenerator = "ok"
    /\ call' = [op |-> "generatorThrows"]
    /\ Reach(Run([service EXCEPT !.dataGenerator = "throws"]))

GeneratorReturns ==
    /\ service.dataGenerator = "throws"
    /\ call' = [op |-> "generatorReturns"]
    /\ Reach(Run([service EXCEPT !.dataGenerator = "ok"]))

GetCachedData ==
    \E limit \in Limits :
        /\ call' = [op |-> "getCachedData", limit |-> limit]
        /\ ret' = [value |-> getCachedData(service, limit), error |-> NoError]
        /\ UNCHANGED <<engine, service, context>>

GetLatestData ==
    /\ call' = [op |-> "getLatestData"]
    /\ ret' = [value |-> <<getLatestData(service)>>, error |-> NoError]
    /\ UNCHANGED <<engine, service, context>>

ClearCache ==
    /\ call' = [op |-> "clearCache"]
    /\ Reach(clearCache(Run(service)))

Destroy ==
    /\ call' = [op |-> "destroy"]
    /\ Reach(destroy(Run(service)))

NextService ==
    \/ Connect
    \/ Disconnect
    \/ UpdateConfig
    \/ UpdateTimer
    \/ HeartbeatTimer
    \/ ReconnectTimeout
    \/ GeneratorThrows
    \/ GeneratorReturns
    \/ GetCachedData
    \/ GetLatestData
    \/ ClearCache
    \/ Destroy

SpecService == Init /\ [][NextService]_vars

\* a timeout that is due fires
SpecServiceLive == SpecService /\ WF_vars(ReconnectTimeout)

(***************************************************************************)
(* Properties of WebSocketService (SpecService).                           *)
(***************************************************************************)

\* C27: whenever status.connected is false, updateTimer and heartbeatTimer
\* are both null, whatever calls of connect, disconnect and updateConfig,
\* timer callbacks and failures of the generator came before.
C27_NoTimerWhileDisconnected ==
    ~service.status.connected =>
        service.updateTimer = Null /\ service.heartbeatTimer = Null

(***************************************************************************)
(* Properties of the reconnection of WebSocketService (SpecServiceLive).   *)
(***************************************************************************)

RetryCountWithinMaxRetries == service.status.retryCount <= service.config.maxRetries

\* a connect is scheduled by reconnect while the generator throws
ReconnectScheduledWhileFailing ==
    service.dataGenerator = "throws" /\ service.timeouts > 0

\* reconnect has given up: the error of its first branch, and no connect
\* left scheduled
MaxRetriesReached ==
    /\ service.status.error = "Max reconnection attempts reached"
    /\ service.timeouts = 0

\* no step that leaves config.maxRetries as it is takes status.retryCount
\* above it
RetryCountKeptWithinMaxRetries ==
    (/\ service'.config.maxRetries = service.config.maxRetries
     /\ RetryCountWithinMaxRetries)
        => RetryCountWithinMaxRetries'

\* C28: status.retryCount never exceeds config.maxRetries (no call or
\* callback takes it above a maxRetries it leaves alone); and once a connect
\* is scheduled by reconnect while the generator throws, either the
\* generator stops throwing or the service comes to report 'Max
\* reconnection attempts reached' with no connect left scheduled.
C28_RetriesBoundedAndGivenUpAtMaxRetries ==
    /\ [][RetryCountKeptWithinMaxRetries]_vars
    /\ ReconnectScheduledWhileFailing ~>
           (service.dataGenerator = "ok" \/ MaxRetriesReached)

\* the error of the first branch of reconnect is never set
NeverMaxRetriesReached ==
    service.status.error # "Max reconnection attempts reached"

(***************************************************************************)
(* Properties of the cache of WebSocketService (SpecService).              *)
(***************************************************************************)

CacheWithinMaxCacheSize == Len(service.dataCache) <= maxCacheSize

\* the last n records of the cache, all of them if it holds fewer
LastRecords(n) ==
    LET size == Len(service.dataCache)
        kept == IF n < size THEN n ELSE size
    IN  SubSeq(service.dataCache, size - kept + 1, size)

\* a step leaves the cache alone, empties it, or adds one record at the end,
\* dropping the first and nothing else exactly when the cache was full
CacheStep ==
    \/ service'.dataCache = service.dataCache
    \/ service'.dataCache = <<>>
    \/ \E record \in GeneratedRecords :
          service'.dataCache =
              IF Len(service.dataCache) < maxCacheSize
              THEN Append(service.dataCache, record)
              ELSE Append(Tail(service.dataCache), record)

LatestDataIsLastAdded ==
    call.op = "getLatestData" =>
        ret.value = IF service.dataCache = <<>>
                    THEN <<Null>>
                    ELSE <<service.dataCache[Len(service.dataCache)]>>

CachedDataIsLastRecords ==
    (call.op = "getCachedData" /\ call.limit # <<>>) =>
        ret.value = LastRecords(call.limit[1])

\* getCachedData(limit) returns the last min(limit, size) records, for the
\* limits other than 0
CachedDataIsLastRecordsFromOne ==
    (call.op = "getCachedData" /\ call.limit # <<>> /\ call.limit[1] # 0) =>
        ret.value = LastRecords(call.limit[1])

\* C29: the cache never holds more than maxCacheSize records; a record is
\* added at the end and a full cache drops its oldest record only;
\* getLatestData returns the last record added, null when the cache is
\* empty; getCachedData(limit) returns the last min(limit, size) records.
\* (slice and the spread of getCachedData build a new array: the value
\* returned is not the cache and later steps do not change it.)
C29_CacheBoundedOrderedAndRead ==
    /\ [](CacheWithinMaxCacheSize /\ LatestDataIsLastAdded /\ CachedDataIsLastRecords)
    /\ [][CacheStep]_vars

\* the same with getCachedData(0) left out
CacheBoundedOrderedAndReadFromOne ==
    /\ [](CacheWithinMaxCacheSize /\ LatestDataIsLastAdded
              /\ CachedDataIsLastRecordsFromOne)
    /\ [][CacheStep]_vars

(***************************************************************************)
(* app/layout.tsx: RealtimeDataProvider over the service.                  *)
(*                                                                         *)
(* The listeners set the state of useState; Render is the next render      *)
(* of the provider, after which the functions of the context close over    *)
(* that state.  A call of the context is a call of the function of the     *)
(* last render.                                                            *)
(***************************************************************************)
\* the provider reached by a call of the context
Provide(reached) ==
    /\ reached.service.timeouts <= MaxTimeouts
    /\ service' = reached.service
    /\ context' = reached.context
    /\ ret' = NoResult
    /\ UNCHANGED engine

\* the effect of the provider: the listeners are registered, then connect is
\* called if autoConnect is set
Mount ==
    /\ ~context.mounted
    /\ call' = [op |-> "mount"]
    /\ \E autoConnect \in BOOLEAN, newData \in GeneratedRecords :
          LET registered == [service EXCEPT !.eventListeners = TRUE]
              run == IF autoConnect
                     THEN connect(Run(registered), newData)
                     ELSE Run(registered)
              effect == [context EXCEPT !.mounted = TRUE, !.isConnecting = autoConnect]
          IN  Provide([service |-> run.service,
                       context |-> listeners(effect, run.emitted)])

Render ==
    /\ context.mounted
    /\ context.rendered # [isConnected |-> context.isConnected,
                           isConnecting |-> context.isConnecting]
    /\ call' = [op |-> "render"]
    /\ Provide([service |-> service,
                context |-> [context EXCEPT !.rendered =
                                [isConnected |-> context.isConnected,
                                 isConnecting |-> context.isConnecting]]])

ContextConnect ==
    /\ context.mounted
    /\ call' = [op |-> "context.connect"]
    /\ \E newData \in GeneratedRecords :
          Provide(contextConnect(context.rendered, service, context, newData))

ContextDisconnect ==
    /\ context.mounted
    /\ call' = [op |-> "context.disconnect"]
    /\ Reach(disconnect(Run(service)))

ContextReconnect ==
    /\ context.mounted
    /\ Len(context.timeouts) < MaxTimeouts
    /\ call' = [op |-> "context.reconnect", connected |-> service.status.connected]
    /\ Provide(contextReconnect(context.rendered, service, context))

\* the callback of setTimeout in reconnect: the connect it closed over
ContextTimeout ==
    /\ context.timeouts # <<>>
    /\ call' = [op |-> "context.timeout"]
    /\ \E newData \in GeneratedRecords :
          Provide(contextConnect(Head(context.timeouts), service,
                                 [context EXCEPT !.timeouts = Tail(@)], newData))

UpdateUpdateInterval ==
    /\ context.mounted
    /\ \E interval \in {1000, 5000}, newData \in GeneratedRecords :
          /\ call' = [op |-> "context.updateInterval", interval |-> interval]
          /\ Reach(updateConfig(Run(service), [updateInterval |-> interval], newData))

ClearData ==
    /\ context.mounted
    /\ call' = [op |-> "context.clearData"]
    /\ Reach(clearCache(Run(service)))

NextProvider ==
    \/ Mount
    \/ Render
    \/ ContextConnect
    \/ ContextDisconnect
    \/ ContextReconnect
    \/ ContextTimeout
    \/ UpdateUpdateInterval
    \/ ClearData
    \/ UpdateTimer
    \/ HeartbeatTimer
    \/ ReconnectTimeout
    \/ GeneratorThrows
    \/ GeneratorReturns

SpecProvider == Init /\ [][NextProvider]_vars

\* a timeout that is due fires, and a state that was set is rendered
SpecProviderLive ==
    /\ SpecProvider
    /\ WF_vars(ContextTimeout)
    /\ WF_vars(ReconnectTimeout)
    /\ WF_vars(Render)

(***************************************************************************)
(* Properties of the reconnect of the context (SpecProviderLive).          *)
(***************************************************************************)

\* reconnect of the context has just been called on a connected service
ReconnectCalledWhileConnected == call.op = "context.reconnect" /\ call.connected

\* C30: reconnect() of the context, called while the service is connected,
\* leaves the service disconnected, and the service comes to be connected
\* again (unless the generator throws, which fails the connect).
C30_ReconnectConnectsAgain ==
    /\ [](ReconnectCalledWhileConnected => ~service.status.connected)
    /\ ReconnectCalledWhileConnected ~>
           (service.status.connected \/ service.dataGenerator = "throws")

====
